---- MODULE Spec2Model ----
(***************************************************************************)
(* The face-swap feature of the dashboard (src/face_swap.py): one request  *)
(* of show_face_swap_ui, or one direct call of swap_faces, as a state      *)
(* machine.  Images are small integer rasters; one integer per pixel       *)
(* stands for the three 8-bit channels, which every operation of the       *)
(* pipeline treats alike (the blend of warp_triangle is element-wise).     *)
(* The OpenCV and numpy calls are operators that compute what the library  *)
(* computes on integer-valued points.                                      *)
(***************************************************************************)
EXTENDS Integers, Sequences, FiniteSets, TLC

\* ------------------------------------------------------------------ bounds
\* Number of landmarks the predictor returns for one face (68 in the
\* shape_predictor_68 model; bounded here).
NumLandmarks == 4
\* Width and height of the destination picture.
ImgW == 5
ImgH == 5

\* Python's None: for a name or a message, for an image and for landmarks.
None == "None"
NoImage == [w |-> 0, h |-> 0, px |-> << >>]
NoLandmarks == << >>
\* None for the face rectangle that detect_landmarks returns.
NoRect == << >>
\* The empty path "" that load_and_prepare_image returns with no image.
NoPath == << >>

\* ------------------------------------------------------------- arithmetic
Abs(n) == IF n < 0 THEN -n ELSE n
Sign(n) == IF n < 0 THEN -1 ELSE IF n > 0 THEN 1 ELSE 0
Min2(a, b) == IF a <= b THEN a ELSE b
Max2(a, b) == IF a >= b THEN a ELSE b
SetMin(S) == CHOOSE m \in S : \A n \in S : m <= n
SetMax(S) == CHOOSE m \in S : \A n \in S : m >= n

\* floor(n / d) for any sign of d (d # 0).
FloorDiv(n, d) == IF d > 0 THEN n \div d ELSE (-n) \div (-d)

\* cvRound(n / d): nearest integer, ties to the even one (lrint).
cvRound(n, d) ==
    LET nn == IF d > 0 THEN n ELSE -n
        dd == Abs(d)
        q  == (2 * nn + dd) \div (2 * dd)
        tie == (2 * nn + dd) % (2 * dd) = 0
    IN  IF tie /\ q % 2 # 0 THEN q - 1 ELSE q

\* ---------------------------------------------------------------- points
\* A point is <<x, y>>.  Cross(o, a, b) is the z component of (a-o) x (b-o).
Cross(o, a, b) ==
    (a[1] - o[1]) * (b[2] - o[2]) - (a[2] - o[2]) * (b[1] - o[1])

\* p lies on the closed segment [a, b], a # b.
OnSegment(p, a, b) ==
    /\ Cross(a, b, p) = 0
    /\ Min2(a[1], b[1]) <= p[1] /\ p[1] <= Max2(a[1], b[1])
    /\ Min2(a[2], b[2]) <= p[2] /\ p[2] <= Max2(a[2], b[2])

\* p lies in the closed triangle a b c (which is not degenerate).
InTriangle(p, a, b, c) ==
    LET d1 == Cross(a, b, p)
        d2 == Cross(b, c, p)
        d3 == Cross(c, a, p)
    IN  /\ Cross(a, b, c) # 0
        /\ ~ ((d1 < 0 \/ d2 < 0 \/ d3 < 0) /\ (d1 > 0 \/ d2 > 0 \/ d3 > 0))

\* A faulty bounding rectangle, for comparison: one row and one column more
\* than the points need.
boundingRect_wide(pts) ==
    LET xs == {pts[i][1] : i \in DOMAIN pts}
        ys == {pts[i][2] : i \in DOMAIN pts}
    IN  <<SetMin(xs), SetMin(ys),
          SetMax(xs) - SetMin(xs) + 2, SetMax(ys) - SetMin(ys) + 2>>

\* cv2.boundingRect of integer-valued points: <<x, y, width, height>>, the
\* smallest upright rectangle that holds every point (the maximum included).
boundingRect(pts) ==
    LET xs == {pts[i][1] : i \in DOMAIN pts}
        ys == {pts[i][2] : i \in DOMAIN pts}
    IN  <<SetMin(xs), SetMin(ys),
          SetMax(xs) - SetMin(xs) + 1, SetMax(ys) - SetMin(ys) + 1>>

\* ----------------------------------------------------------- convex hull
\* Lexicographic order on points (x, then y).
LexLess(p, q) == p[1] < q[1] \/ (p[1] = q[1] /\ p[2] < q[2])

\* Among landmarks with equal coordinates the lowest index stands for them.
Reps(points) ==
    {i \in DOMAIN points : \A j \in DOMAIN points : points[j] = points[i] => i <= j}

\* Landmark i is a vertex of the convex hull: it is not in the convex hull of
\* the other points (not between two of them, not in a triangle of three).
IsHullVertex(points, i) ==
    LET R == Reps(points) \ {i}
        p == points[i]
    IN  /\ i \in Reps(points)
        /\ ~ \E a, b \in R : a # b /\ OnSegment(p, points[a], points[b])
        /\ ~ \E a, b, c \in R : InTriangle(p, points[a], points[b], points[c])

HullVertices(points) == {i \in DOMAIN points : IsHullVertex(points, i)}

\* The hull vertex that follows i counter-clockwise: every other vertex lies
\* strictly to the left of the edge from i to it.
HullNext(points, V, i) ==
    CHOOSE j \in V \ {i} : \A k \in V \ {i, j} : Cross(points[i], points[j], points[k]) > 0

RECURSIVE HullWalk(_, _, _)
HullWalk(points, V, seq) ==
    IF Len(seq) = Cardinality(V) THEN seq
    ELSE HullWalk(points, V, Append(seq, HullNext(points, V, seq[Len(seq)])))

\* cv2.convexHull(points, returnPoints=False): the indices of the hull's
\* vertices, counter-clockwise, starting from the leftmost one.  Points on an
\* edge of the hull and points in its interior are not part of it.
convexHull(points) ==
    LET V == HullVertices(points)
        first == CHOOSE i \in V : \A j \in V \ {i} : LexLess(points[i], points[j])
    IN  HullWalk(points, V, <<first>>)

\* ---------------------------------------------------------- triangulation
\* d lies strictly inside the circle through a, b and c.
InCircumcircle(a, b, c, d) ==
    LET ax == a[1] - d[1]
        ay == a[2] - d[2]
        bx == b[1] - d[1]
        by == b[2] - d[2]
        cx == c[1] - d[1]
        cy == c[2] - d[2]
        det == (ax * ax + ay * ay) * (bx * cy - by * cx)
             - (bx * bx + by * by) * (ax * cy - ay * cx)
             + (cx * cx + cy * cy) * (ax * by - ay * bx)
    IN  det * Sign(Cross(a, b, c)) > 0

\* The open segments a b and c d cross in one point.
ProperCross(a, b, c, d) ==
    /\ Sign(Cross(a, b, c)) * Sign(Cross(a, b, d)) < 0
    /\ Sign(Cross(c, d, a)) * Sign(Cross(c, d, b)) < 0

\* Subdiv2D's three outer vertices for the rectangle rect (initDelaunay);
\* they lie outside rect, so none of them is a hull point.
OuterVertices(rect) ==
    LET big == 3 * Max2(rect[3], rect[4])
    IN  << <<rect[1] + big, rect[2]>>, <<rect[1], rect[2] + big>>,
           <<rect[1] - big, rect[2] - big>> >>

\* The vertices of the subdivision after subdiv.insert(hull_points2): the
\* hull points, then the three outer vertices.
SubdivVertices(hp) == hp \o OuterVertices(boundingRect(hp))

\* The triangles (i < j < k, positions in P) that can be part of a Delaunay
\* triangulation of P: no vertex lies strictly inside the circumcircle.
DelaunayCandidates(P) ==
    {<<i, j, k>> : <<i, j, k>> \in
        {t \in (1 .. Len(P)) \X (1 .. Len(P)) \X (1 .. Len(P)) :
            /\ t[1] < t[2] /\ t[2] < t[3]
            /\ Cross(P[t[1]], P[t[2]], P[t[3]]) # 0
            /\ \A m \in 1 .. Len(P) : ~ InCircumcircle(P[t[1]], P[t[2]], P[t[3]], P[m])}}

\* Two candidate triangles cannot both be in one triangulation: an edge of
\* one crosses an edge of the other.
Conflict(P, t, u) ==
    /\ t # u
    /\ \E i, j, k, l \in 1 .. 3 :
          /\ i < j /\ k < l
          /\ ProperCross(P[t[i]], P[t[j]], P[u[k]], P[u[l]])

\* The candidates in C that conflict with no other candidate.
Unconflicted(P, C) == {t : t \in {v \in C : \A u \in C : ~ Conflict(P, v, u)}}

\* The largest sets of candidates in A that are free of conflicts.
MaximalFree(P, A) ==
    {S \in SUBSET A :
        /\ \A t, u \in S : ~ Conflict(P, t, u)
        /\ \A t \in A \ S : \E u \in S : Conflict(P, t, u)}

\* The Delaunay triangulations of P.  Every candidate that conflicts with no
\* other is in all of them; where four or more vertices lie on one empty
\* circle the subdivision holds one of the ways to cut their polygon.
DelaunayTriangulations(P) ==
    UNION {UNION {{forced \cup S : S \in MaximalFree(P, {t : t \in C \ forced})} :
                    forced \in {Unconflicted(P, C)}} :
            C \in {DelaunayCandidates(P)}}

\* One row of getTriangleList: the six coordinates of a triangle.
Vec6(a, b, c) == <<a[1], a[2], b[1], b[2], c[1], c[2]>>

\* The orders in which the members of a finite set can be listed.
Orderings(S) ==
    {q \in [1 .. Cardinality(S) -> S] : \A i, j \in DOMAIN q : q[i] = q[j] => i = j}

\* The members of a set of triangles listed by ascending positions.
RECURSIVE Ascending(_)
Ascending(S) ==
    IF S = {} THEN << >>
    ELSE LET key(t) == (t[1] * 100 + t[2]) * 100 + t[3]
             least == CHOOSE t \in S : \A u \in S : key(t) <= key(u)
         IN  <<least>> \o Ascending(S \ {least})

\* What subdiv.getTriangleList() can return after the hull points were
\* inserted.  A build that filters lists the triangles whose vertices are
\* all hull points, in some order; a build that does not filter lists the
\* triangles at the outer vertices too (here: one of them first, the others
\* last).  A hull triangle whose circumcircle holds an outer vertex is not
\* part of the subdivision and is not listed by either build.
TriangleListsOf(P, n, T) ==
    LET row(t) == Vec6(P[t[1]], P[t[2]], P[t[3]])
        rows(q) == [i \in DOMAIN q |-> row(q[i])]
    IN  UNION {UNION {{rows(q), rows(<<Head(outer)>> \o q \o Tail(outer))} :
                        q \in Orderings(real)} :
                real \in {{t \in T : t[3] <= n}}, outer \in {Ascending({t \in T : t[3] > n})}}

TriangleLists(hp) ==
    UNION {UNION {TriangleListsOf(P, Len(hp), T) : T \in DelaunayTriangulations(P)} :
            P \in {SubdivVertices(hp)}}

\* ----------------------------------------------------------------- images
\* An image: width w, height h and px, the value of the pixel at <<x, y>>
\* for x in 0 .. w-1, y in 0 .. h-1.  Its numpy shape is <<h, w, 3>>.
Pixels(w, h) == (0 .. w - 1) \X (0 .. h - 1)
shape(img) == <<img.h, img.w, 3>>

\* img[y : y + h, x : x + w] for x, y >= 0: numpy clips the slice to the
\* array, so the view is <<x0, y0, width, height>> and may be smaller than
\* asked for, or empty.
Slice(img, r) ==
    LET x0 == Min2(r[1], img.w)
        x1 == Min2(r[1] + r[3], img.w)
        y0 == Min2(r[2], img.h)
        y1 == Min2(r[2] + r[4], img.h)
    IN  <<x0, y0, x1 - x0, y1 - y0>>

\* ----------------------------------------------------------- fillConvexPoly
\* C integer division, which truncates towards zero (d > 0).
TruncDiv(n, d) == IF n >= 0 THEN n \div d ELSE -((-n) \div d)

\* n / d rounded to the nearest integer, a tie going down (d > 0, n >= 0).
RoundHalfDown(n, d) == -((d - 2 * n) \div (2 * d))

\* The pixels cv::LineIterator visits from p1 to p2 (8-connected, left to
\* right): one pixel per step along the longer axis, the other coordinate
\* stepping when the error term becomes negative.
LinePixels(p1, p2) ==
    LET swap == p2[1] < p1[1]
        s  == IF swap THEN p2 ELSE p1
        e  == IF swap THEN p1 ELSE p2
        dx == e[1] - s[1]
        dy == Abs(e[2] - s[2])
        sy == Sign(e[2] - s[2])
    IN  IF dx = 0 /\ dy = 0 THEN {s}
        ELSE IF dy > dx
             THEN {<<s[1] + RoundHalfDown(k * dx, dy), s[2] + sy * k>> : k \in 0 .. dy}
             ELSE {<<s[1] + k, s[2] + sy * RoundHalfDown(k * dy, dx)>> : k \in 0 .. dx}

\* The x coordinate, in 1/65536 pixels, at which the scan conversion holds
\* the edge from a down to b on row y (a[2] <= y < b[2]): it starts at a and
\* adds the slope, rounded to 1/65536, once per row.
EdgeX(a, b, y) ==
    LET rows == b[2] - a[2]
        step == TruncDiv((b[1] - a[1]) * 65536 * 2 + rows, 2 * rows)
    IN  a[1] * 65536 + step * (y - a[2])

\* The pixels the scan conversion of the polygon v fills on row y: from the
\* left edge to the right edge, each rounded to the nearest pixel.
ScanRow(v, y) ==
    LET n  == Len(v)
        xs == {EdgeX(v[i], v[(i % n) + 1], y) : i \in {j \in 1 .. n :
                    v[j][2] <= y /\ y < v[(j % n) + 1][2]}}
              \cup
              {EdgeX(v[(i % n) + 1], v[i], y) : i \in {j \in 1 .. n :
                    v[(j % n) + 1][2] <= y /\ y < v[j][2]}}
    IN  IF xs = {} THEN {}
        ELSE {<<x, y>> : x \in ((SetMin(xs) + 32768) \div 65536) ..
                               ((SetMax(xs) + 32768) \div 65536)}

\* A faulty fill, for comparison: the rows between the edges without the
\* edges drawn as lines, which leaves out the lowest row.
fillConvexPoly_rows(w, h, v) ==
    LET ys == {v[i][2] : i \in 1 .. Len(v)}
    IN  UNION {ScanRow(v, y) : y \in SetMin(ys) .. SetMax(ys) - 1} \cap Pixels(w, h)

\* cv2.fillConvexPoly(mask, v, 1.0, 16, 0) on a w x h float mask: the set of
\* pixels set to 1.  The mask is not 8-bit, so the anti-aliased line type
\* falls back to 8-connected lines; the edges are drawn as lines and the
\* rows above the lowest one are filled between the edges.
fillConvexPoly(w, h, v) ==
    LET n    == Len(v)
        ys   == {v[i][2] : i \in 1 .. n}
        area == UNION {LinePixels(v[i], v[(i % n) + 1]) : i \in 1 .. n}
                \cup UNION {ScanRow(v, y) : y \in SetMin(ys) .. SetMax(ys) - 1}
    IN  area \cap Pixels(w, h)

\* --------------------------------------------------------------- warpAffine
\* cv::borderInterpolate(p, len, BORDER_REFLECT_101).
RECURSIVE Reflect101(_, _)
Reflect101(p, len) ==
    IF 0 <= p /\ p < len THEN p
    ELSE IF len = 1 THEN 0
    ELSE IF p < 0 THEN Reflect101(-p, len)
    ELSE Reflect101(2 * len - 2 - p, len)

\* The affine map that takes the triangle b onto the triangle a, applied to p:
\* the numerators of its two coordinates over the common denominator
\* Cross(b[1], b[2], b[3]) (barycentric coordinates of p in b, applied to a).
AffineNum(a, b, p, c) ==
    Cross(p, b[2], b[3]) * a[1][c] + Cross(b[1], p, b[3]) * a[2][c]
        + Cross(b[1], b[2], p) * a[3][c]

\* The source coordinate c (1 = x, 2 = y), in 1/32 pixels, that warpAffine
\* reads for the destination pixel p.  M = getAffineTransform(a, b) is
\* inverted; the column and row terms are rounded to 1/1024 separately, the
\* rounding offset 16 is added and the sum is cut to 1/32.  When one of the
\* triangles is degenerate M is singular, the inverse is taken as zero and
\* every pixel reads the source at <<0, 0>>.
SourceCoord32(a, b, p, c) ==
    LET D    == Cross(b[1], b[2], b[3])
        f00  == AffineNum(a, b, <<0, 0>>, c)
        f10  == AffineNum(a, b, <<1, 0>>, c)
        f0y  == AffineNum(a, b, <<0, p[2]>>, c)
        adelta == cvRound(1024 * p[1] * (f10 - f00), D)
        bdelta == cvRound(1024 * f0y, D) + 16
    IN  IF D = 0 \/ Cross(a[1], a[2], a[3]) = 0 THEN 0
        ELSE (adelta + bdelta) \div 32

\* A faulty read, for comparison: the view's corner is not added, so the
\* pixel is read from the corner of the whole picture.
ViewPixel_whole(img, v, i, j) ==
    img.px[<<Reflect101(i, v[3]), Reflect101(j, v[4])>>]

\* The pixel <<i, j>> of the view v of img, with reflected borders.
ViewPixel(img, v, i, j) ==
    img.px[<<v[1] + Reflect101(i, v[3]), v[2] + Reflect101(j, v[4])>>]

\* Bilinear interpolation of the view v of img at the point <<X, Y>> given in
\* 1/32 pixels: the four neighbours weighted in 1/1024, rounded to nearest.
Bilinear(img, v, X, Y) ==
    LET sx == X \div 32
        sy == Y \div 32
        fx == X % 32
        fy == Y % 32
    IN  ( (32 - fx) * (32 - fy) * ViewPixel(img, v, sx, sy)
        + fx * (32 - fy) * ViewPixel(img, v, sx + 1, sy)
        + (32 - fx) * fy * ViewPixel(img, v, sx, sy + 1)
        + fx * fy * ViewPixel(img, v, sx + 1, sy + 1)
        + 512 ) \div 1024

\* cv2.warpAffine(img1_rect, mat, size, INTER_LINEAR, BORDER_REFLECT_101)
\* where img1_rect is the view v of img and mat = getAffineTransform(a, b):
\* the value of every pixel of the size[1] x size[2] result.
warpAffine(img, v, a, b, size) ==
    [p \in Pixels(size[1], size[2]) |->
        Bilinear(img, v, SourceCoord32(a, b, p, 1), SourceCoord32(a, b, p, 2))]

\* ------------------------------------------------------------ warp_triangle
\* A faulty shift, for comparison: the corner of the rectangle is not taken off.
Relative_absolute(t, r) == [i \in DOMAIN t |-> <<t[i][1], t[i][2]>>]

\* The points of t relative to the corner of the rectangle r.
Relative(t, r) == [i \in DOMAIN t |-> <<t[i][1] - r[1], t[i][2] - r[2]>>]

\* numpy broadcasting of two lengths along one axis.
Broadcastable(m, n) == m = n \/ m = 1 \/ n = 1
Broadcast(m, n) == IF m = 1 THEN n ELSE m

\* A value of length m can be assigned to a slice of length n.
Assignable(m, n) == m = n \/ m = 1

\* A faulty blend, for comparison: the two roles of the mask exchanged.
Blend_swapped(dest, warped, mask) == dest * mask + warped * (1 - mask)

\* A faulty blend, for comparison: the destination is not weighted.
Blend_sum(dest, warped, mask) == dest + warped * mask

\* img2_rect * (1 - mask) + warp * mask for one channel value; mask is 0 or 1.
Blend(dest, warped, mask) == dest * (1 - mask) + warped * mask

\* The assignment of the blended float values to the uint8 picture: numpy
\* cuts the fraction and keeps the low eight bits.  The blend is integral,
\* the mask holding only 0.0 and 1.0, so there is no fraction to cut.
astype_uint8(v) == v % 256

\* warp_triangle(img1, img2, t1, t2): error is the exception the call raises
\* or None (an empty source view makes warpAffine fail; a destination
\* rectangle that reaches beyond img2 makes the blend or the assignment fail
\* on the shapes), img is img2 after the call and mask holds the pixels of
\* img2 where the mask was 1.  An error is raised before anything is written.
warp_triangle(img1, img2, t1, t2) ==
    LET r1      == boundingRect(t1)
        r2      == boundingRect(t2)
        t1_rect == Relative(t1, r1)
        t2_rect == Relative(t2, r2)
        mask    == fillConvexPoly(r2[3], r2[4], t2_rect)
        v1      == Slice(img1, r1)
        v2      == Slice(img2, r2)
        size    == <<r2[3], r2[4]>>
        bw      == Broadcast(v2[3], r2[3])
        bh      == Broadcast(v2[4], r2[4])
        empty   == v1[3] = 0 \/ v1[4] = 0
        shapes  == \/ ~ Broadcastable(v2[3], r2[3]) \/ ~ Broadcastable(v2[4], r2[4])
                   \/ ~ Assignable(bw, v2[3]) \/ ~ Assignable(bh, v2[4])
        error   == IF empty THEN "cv2.error: warpAffine: empty source"
                   ELSE IF shapes THEN "ValueError: operands could not be broadcast together"
                   ELSE None
        writes  == error = None /\ v2[3] > 0 /\ v2[4] > 0
        warp    == warpAffine(img1, v1, t1_rect, t2_rect, size)
        inRect(p) == /\ r2[1] <= p[1] /\ p[1] < r2[1] + r2[3]
                     /\ r2[2] <= p[2] /\ p[2] < r2[2] + r2[4]
        local(p) == <<p[1] - r2[1], p[2] - r2[2]>>
    IN  [error  |-> error,
         img    |-> IF ~ writes THEN img2
                    ELSE [img2 EXCEPT !.px = [p \in DOMAIN img2.px |->
                            IF inRect(p)
                            THEN astype_uint8(Blend(img2.px[p], warp[local(p)],
                                                    IF local(p) \in mask THEN 1 ELSE 0))
                            ELSE img2.px[p]]],
         mask   |-> IF ~ writes THEN {}
                    ELSE {p \in DOMAIN img2.px : inRect(p) /\ local(p) \in mask}]

\* ------------------------------------------------------------------ inputs
\* The destination picture and a source picture of another size and content.
DstPicture ==
    [w |-> ImgW, h |-> ImgH,
     px |-> [p \in Pixels(ImgW, ImgH) |-> (7 + 16 * p[1] + 64 * p[2]) % 256]]
SrcPicture ==
    [w |-> ImgW + 1, h |-> ImgH - 1,
     px |-> [p \in Pixels(ImgW + 1, ImgH - 1) |-> (200 + 3 * p[1] + 5 * p[2]) % 256]]

\* Where the predictor may put a landmark.  Three of the points span a thin
\* triangle, <<0, 0>>, <<2, 3>>, <<3, 4>>, whose circumcircle holds an outer
\* vertex of the subdivision; the last point is one column beyond the
\* destination picture, as happens for a face at the border.
CandidatePoints == {<<0, 0>>, <<2, 1>>, <<2, 3>>, <<3, 4>>, <<ImgW, 3>>}

LandmarkSets == [1 .. NumLandmarks -> CandidatePoints]

\* How the landmarks of the source face relate to those of the destination.
Transforms == {"same", "shift", "halve"}
Transform(kind, p) ==
    CASE kind = "same"  -> p
      [] kind = "shift" -> <<p[1] + 1, p[2]>>
      [] kind = "halve" -> <<p[1] \div 2, p[2]>>

DefaultLandmarks == [i \in 1 .. NumLandmarks |-> IF i = 1 THEN <<0, 0>>
                                                  ELSE IF i = 2 THEN <<2, 1>>
                                                  ELSE <<0, 2>>]

\* What the face detector and the shape predictor find in the two pictures:
\* the landmarks of the first face, or NoLandmarks.  Equal pictures have equal
\* landmarks.
Scenes ==
    {[img1 |-> DstPicture, img2 |-> DstPicture, lm1 |-> L, lm2 |-> L] : L \in LandmarkSets}
    \cup
    {[img1 |-> SrcPicture, img2 |-> DstPicture,
      lm1 |-> [i \in 1 .. NumLandmarks |-> Transform(k, L[i])], lm2 |-> L] :
        L \in LandmarkSets, k \in Transforms}
    \cup
    {[img1 |-> SrcPicture, img2 |-> DstPicture, lm1 |-> a, lm2 |-> b] :
        a \in {NoLandmarks, DefaultLandmarks}, b \in {NoLandmarks, DefaultLandmarks}}

\* A second set of landmarks, for a picture that shows more than one face.
OtherLandmarks == [i \in 1 .. NumLandmarks |-> IF i = 1 THEN <<0, 0>>
                                                ELSE IF i = 2 THEN <<2, 1>>
                                                ELSE <<2, 3>>]

\* One detected face: the rectangle the detector reports for it and the
\* parts the shape predictor finds in that rectangle.
Face(L) == [rect |-> boundingRect(L), parts |-> L]

\* What detector(gray, 1) returns for a picture whose only face, if any, has
\* the landmarks L.
Faces(L) == IF L = NoLandmarks THEN << >> ELSE <<Face(L)>>

\* What it can return for a picture with up to two faces, in either order.
FaceLists ==
    LET F == {Face(DefaultLandmarks), Face(OtherLandmarks)}
    IN  {<< >>} \cup {<<f>> : f \in F} \cup {<<f, g>> : f \in F, g \in F}

DefaultScene ==
    [img1 |-> SrcPicture, img2 |-> DstPicture,
     lm1 |-> DefaultLandmarks, lm2 |-> DefaultLandmarks]

\* An upload: nothing ("none"), or bytes.  "image" decodes from memory,
\* "fileonly" only when read back from a file, "garbage" is no image and
\* "empty" is zero bytes.
UploadKinds == {"image", "fileonly", "garbage", "empty"}
Upload(kind, img) ==
    [kind |-> kind, img |-> IF kind \in {"image", "fileonly"} THEN img ELSE NoImage]
NoUpload == Upload("none", NoImage)

\* ------------------------------------------------------------------- state
VARIABLES
    pc,            \* where the request, or the direct call, stands
    entry,         \* "ui": the Swap Faces button; "direct": swap_faces(img1, img2)
    file1, file2,  \* the two uploads (None when nothing was uploaded)
    predictor,     \* the shape predictor file exists
    det,           \* det[i]: the faces the detector finds in picture i, in its order
    imdecodeRaises,\* the OpenCV build raises on an empty buffer (else returns None)
    tempfs,        \* the temp directory: "ok"; "raises": NamedTemporaryFile raises
                   \* OSError; "fails": the file is created but cv2.imwrite
                   \* cannot write it and returns False
    args,          \* <<t1, t2>> for a call of warp_triangle on its own, else << >>
    bufs,          \* concurrent calls: the pixel buffers of the process, by number
    calls,         \* concurrent calls: calls[c], the local variables of call c
    heap,          \* the pixel buffers: img1, img2 and the copy swap_faces makes
    path1, path2,  \* the temp paths load_and_prepare_image returned
    tempFiles,     \* the temporary files that exist
    tempSeq,       \* how many temporary files were created
    errors,        \* the messages shown with st.error, in order
    face1, face2,  \* the face rectangles the handler's own detection returned
    output,        \* swap_faces: the buffer its variable output names
    landmarks1, landmarks2,
    hull2, hull_points1, hull_points2,
    triangles,     \* the triangle list, and ti the next triangle to process
    ti,
    warps,         \* the calls of warp_triangle so far: <<pts1, pts2, raised>>
    painted,       \* the pixels of the output where some mask was 1
    dst0,          \* the destination buffer as it was when swap_faces was called
    result,        \* what swap_faces returned (NoImage before)
    raised,        \* the exception swap_faces raised (None when none)
    log,           \* what was done so far, in order: decode, load, detect, hull,
                   \* triangulate, warp and return events
    gmail,         \* gmail_integration: the GmailIntegration object, its files and
                   \* the position of authenticate
    ssh,           \* main: the session of the Linux command center
    dm,            \* linkedin_dm: the submit handler and its LinkedInDMSender
    tp             \* ml_utils: the TrainingProgress callback and the page

vars == <<pc, entry, file1, file2, predictor, det, imdecodeRaises, tempfs, args, bufs, calls, heap, path1, path2, tempFiles,
          tempSeq, errors, face1, face2, output, landmarks1, landmarks2, hull2,
          hull_points1, hull_points2, triangles, ti, warps, painted, dst0,
          result, raised, log, gmail, ssh, dm, tp>>

uiVars == <<path1, path2, tempFiles, tempSeq, face1, face2>>
swapVars == <<output, landmarks1, landmarks2, hull2, hull_points1, hull_points2,
              triangles, ti, warps, painted, dst0, result, raised>>
inputVars == <<entry, file1, file2, predictor, det, imdecodeRaises, tempfs, args>>
parVars == <<bufs, calls>>
appVars == <<gmail, ssh, dm, tp>>
faceVars == <<inputVars, parVars, uiVars, swapVars, heap, errors, pc, log>>

\* A part of the application that this behaviour does not use.
Idle == [pc |-> "idle"]
AppsIdle == gmail = Idle /\ ssh = Idle /\ dm = Idle /\ tp = Idle

InitLocals ==
    /\ path1 = NoPath /\ path2 = NoPath
    /\ tempFiles = {} /\ tempSeq = 0
    /\ errors = << >>
    /\ face1 = NoRect /\ face2 = NoRect
    /\ output = None
    /\ landmarks1 = NoLandmarks /\ landmarks2 = NoLandmarks
    /\ hull2 = << >> /\ hull_points1 = << >> /\ hull_points2 = << >>
    /\ triangles = << >> /\ ti = 0
    /\ warps = << >> /\ painted = {}
    /\ dst0 = NoImage
    /\ result = NoImage /\ raised = None
    /\ log = << >>

\* A request of the page with two decodable uploads, or a direct call of
\* swap_faces on two arrays, for every scene.
InitScene ==
    \E sc \in Scenes, e \in {"ui", "direct"} :
        /\ entry = e
        /\ predictor = TRUE
        /\ imdecodeRaises = TRUE
        /\ det = <<Faces(sc.lm1), Faces(sc.lm2)>>
        /\ IF e = "ui"
           THEN /\ file1 = Upload("image", sc.img1)
                /\ file2 = Upload("image", sc.img2)
                /\ heap = [img1 |-> NoImage, img2 |-> NoImage, output |-> NoImage]
                /\ pc = "button"
           ELSE /\ file1 = NoUpload /\ file2 = NoUpload
                /\ heap = [img1 |-> sc.img1, img2 |-> sc.img2, output |-> NoImage]
                /\ pc = "swap_copy"

\* A request of the page with any two uploads, with or without the shape
\* predictor file, and a direct call without it.
InitUploads ==
    \E k1, k2 \in UploadKinds \cup {"none"}, pr, ir \in BOOLEAN, e \in {"ui", "direct"} :
        /\ entry = e
        /\ predictor = pr
        /\ imdecodeRaises = ir
        /\ det = <<Faces(DefaultScene.lm1), Faces(DefaultScene.lm2)>>
        /\ IF e = "ui"
           THEN /\ file1 = Upload(k1, DefaultScene.img1)
                /\ file2 = Upload(k2, DefaultScene.img2)
                /\ heap = [img1 |-> NoImage, img2 |-> NoImage, output |-> NoImage]
                /\ pc = "button"
           ELSE /\ k1 = "none" /\ k2 = "none" /\ pr = FALSE /\ ir = TRUE
                /\ file1 = NoUpload /\ file2 = NoUpload
                /\ heap = [img1 |-> DefaultScene.img1, img2 |-> DefaultScene.img2,
                           output |-> NoImage]
                /\ pc = "swap_copy"

\* A request, or a direct call, on pictures that show no face, one face or
\* two faces.
InitFaces ==
    \E f1, f2 \in FaceLists, e \in {"ui", "direct"} :
        /\ entry = e
        /\ predictor = TRUE
        /\ imdecodeRaises = TRUE
        /\ det = <<f1, f2>>
        /\ IF e = "ui"
           THEN /\ file1 = Upload("image", DefaultScene.img1)
                /\ file2 = Upload("image", DefaultScene.img2)
                /\ heap = [img1 |-> NoImage, img2 |-> NoImage, output |-> NoImage]
                /\ pc = "button"
           ELSE /\ file1 = NoUpload /\ file2 = NoUpload
                /\ heap = [img1 |-> DefaultScene.img1, img2 |-> DefaultScene.img2,
                           output |-> NoImage]
                /\ pc = "swap_copy"

Init ==
    /\ InitLocals
    /\ args = << >> /\ bufs = << >> /\ calls = << >>
    /\ AppsIdle
    /\ tempfs = "ok"
    /\ (InitScene \/ InitUploads \/ InitFaces)

\* One entry of the log.
Event(op, img) == [op |-> op, img |-> img, outcome |-> None]
DetectEvent(img, outcome) == [op |-> "detect", img |-> img, outcome |-> outcome]

\* ----------------------------------------------------- the page's handler
\* A faulty loader, for comparison: a failed decoding is not reported.
load_and_prepare_image_silent(uploaded_file) ==
    [image   |-> uploaded_file.img,
     keeps   |-> uploaded_file.kind \in {"fileonly", "image"},
     created |-> IF uploaded_file.kind \in {"none", "empty"} THEN 0 ELSE 1,
     decodes |-> IF uploaded_file.kind = "none" THEN 0 ELSE 1,
     errs    |-> << >>]

\* load_and_prepare_image(uploaded_file): the image it returns (NoImage for
\* None), whether it returns the path of a temporary file it leaves behind,
\* how many temporary files it created in all, how many times it tried to
\* decode the bytes and what it reports.  The
\* file of the second decoding attempt is unlinked before the attempt's
\* result is looked at; the file written "for reference" is returned.  When
\* NamedTemporaryFile raises, the except clause reports it; the value
\* cv2.imwrite returns is not looked at, so a file it could not write is
\* returned like one it wrote.
load_and_prepare_image(uploaded_file) ==
    CASE uploaded_file.kind = "none" ->
            [image |-> NoImage, keeps |-> FALSE, created |-> 0, decodes |-> 0,
             errs |-> << >>]
      [] uploaded_file.kind = "empty" /\ imdecodeRaises ->
            [image |-> NoImage, keeps |-> FALSE, created |-> 0, decodes |-> 1,
             errs |-> <<"Error loading image: imdecode failed">>]
      [] uploaded_file.kind = "image" /\ tempfs = "raises" ->
            [image |-> NoImage, keeps |-> FALSE, created |-> 0, decodes |-> 1,
             errs |-> <<"Error loading image: OSError">>]
      [] uploaded_file.kind \in {"empty", "garbage", "fileonly"} /\ tempfs = "raises"
            /\ ~ (uploaded_file.kind = "empty" /\ imdecodeRaises) ->
            [image |-> NoImage, keeps |-> FALSE, created |-> 0, decodes |-> 1,
             errs |-> <<"Error loading image: OSError">>]
      [] uploaded_file.kind = "empty" /\ ~ imdecodeRaises /\ tempfs # "raises" ->
            [image |-> NoImage, keeps |-> FALSE, created |-> 1, decodes |-> 2,
             errs |-> <<"Error loading image: Could not decode the image">>]
      [] uploaded_file.kind = "garbage" /\ tempfs # "raises" ->
            [image |-> NoImage, keeps |-> FALSE, created |-> 1, decodes |-> 2,
             errs |-> <<"Error loading image: Could not decode the image">>]
      [] uploaded_file.kind = "fileonly" /\ tempfs # "raises" ->
            [image |-> uploaded_file.img, keeps |-> TRUE, created |-> 2, decodes |-> 2,
             errs |-> << >>]
      [] uploaded_file.kind = "image" /\ tempfs # "raises" ->
            [image |-> uploaded_file.img, keeps |-> TRUE, created |-> 1, decodes |-> 1,
             errs |-> << >>]

\* What one call of load_and_prepare_image on upload i adds to the log: its
\* decoding attempts (cv2.imdecode, then cv2.imread on the same bytes), then
\* the call itself.
LoadEvents(r, i) == [k \in 1 .. r.decodes |-> Event("decode", i)] \o <<Event("load", i)>>

\* The name of the n-th temporary file.
TempName(n) == <<"tmp", n>>

\* A faulty detection, for comparison: the last face found is taken.
detect_landmarks_last(i) ==
    IF ~ predictor
    THEN [face |-> NoRect, landmarks |-> NoLandmarks, outcome |-> "error",
          errs |-> <<"Error in face detection: predictor not found">>]
    ELSE IF det[i] = << >>
    THEN [face |-> NoRect, landmarks |-> NoLandmarks, outcome |-> "noface", errs |-> << >>]
    ELSE [face |-> det[i][Len(det[i])].rect, landmarks |-> det[i][Len(det[i])].parts,
          outcome |-> "face", errs |-> << >>]

\* detect_landmarks on picture i: the rectangle and the landmarks of the
\* first face, faces[0], or None for both when no face is found or when an
\* exception was caught inside (the predictor file is missing), which it
\* reports.
detect_landmarks(i) ==
    IF ~ predictor
    THEN [face |-> NoRect, landmarks |-> NoLandmarks, outcome |-> "error",
          errs |-> <<"Error in face detection: predictor not found">>]
    ELSE IF det[i] = << >>
    THEN [face |-> NoRect, landmarks |-> NoLandmarks, outcome |-> "noface", errs |-> << >>]
    ELSE [face |-> det[i][1].rect, landmarks |-> det[i][1].parts, outcome |-> "face",
          errs |-> << >>]

\* if st.button("Swap Faces"): both files must have been uploaded.
ClickSwap ==
    /\ pc = "button"
    /\ IF file1.kind = "none" \/ file2.kind = "none"
       THEN /\ errors' = Append(errors, "Please upload both images first!")
            /\ pc' = "done"
       ELSE /\ errors' = errors
            /\ pc' = "load1"
    /\ UNCHANGED <<inputVars, parVars, appVars, heap, uiVars, swapVars, log>>

\* img1, img1_path = load_and_prepare_image(img1_file)
Load1 ==
    /\ pc = "load1"
    /\ LET r == load_and_prepare_image(file1)
       IN  /\ heap' = [heap EXCEPT !.img1 = r.image]
           /\ tempSeq' = tempSeq + r.created
           /\ tempFiles' = IF r.keeps THEN tempFiles \cup {TempName(tempSeq + r.created)}
                           ELSE tempFiles
           /\ path1' = IF r.keeps THEN TempName(tempSeq + r.created) ELSE NoPath
           /\ errors' = errors \o r.errs
           /\ log' = log \o LoadEvents(r, 1)
    /\ pc' = "load2"
    /\ UNCHANGED <<inputVars, parVars, appVars, path2, face1, face2, swapVars>>

\* img2, img2_path = load_and_prepare_image(img2_file)
Load2 ==
    /\ pc = "load2"
    /\ LET r == load_and_prepare_image(file2)
       IN  /\ heap' = [heap EXCEPT !.img2 = r.image]
           /\ tempSeq' = tempSeq + r.created
           /\ tempFiles' = IF r.keeps THEN tempFiles \cup {TempName(tempSeq + r.created)}
                           ELSE tempFiles
           /\ path2' = IF r.keeps THEN TempName(tempSeq + r.created) ELSE NoPath
           /\ errors' = errors \o r.errs
           /\ log' = log \o LoadEvents(r, 2)
    /\ pc' = "loaded"
    /\ UNCHANGED <<inputVars, parVars, appVars, path1, face1, face2, swapVars>>

\* if img1 is None or img2 is None: report and return.
CheckLoaded ==
    /\ pc = "loaded"
    /\ IF heap.img1 = NoImage \/ heap.img2 = NoImage
       THEN /\ errors' = Append(errors, "Failed to load one or both images.")
            /\ pc' = "done"
       ELSE /\ errors' = errors
            /\ pc' = "predictor"
    /\ UNCHANGED <<inputVars, parVars, appVars, heap, uiVars, swapVars, log>>

\* if not os.path.exists(predictor_path): report and return.
CheckPredictor ==
    /\ pc = "predictor"
    /\ IF ~ predictor
       THEN /\ errors' = Append(errors, "Shape predictor file not found.")
            /\ pc' = "done"
       ELSE /\ errors' = errors
            /\ pc' = "detect1"
    /\ UNCHANGED <<inputVars, parVars, appVars, heap, uiVars, swapVars, log>>

\* face1, landmarks1 = detect_landmarks(img1)
Detect1 ==
    /\ pc = "detect1"
    /\ LET r == detect_landmarks(1)
       IN  /\ face1' = r.face
           /\ errors' = errors \o r.errs
           /\ log' = Append(log, DetectEvent(1, r.outcome))
    /\ pc' = "detect2"
    /\ UNCHANGED <<inputVars, parVars, appVars, heap, path1, path2, tempFiles, tempSeq, face2, swapVars>>

\* face2, landmarks2 = detect_landmarks(img2)
Detect2 ==
    /\ pc = "detect2"
    /\ LET r == detect_landmarks(2)
       IN  /\ face2' = r.face
           /\ errors' = errors \o r.errs
           /\ log' = Append(log, DetectEvent(2, r.outcome))
    /\ pc' = "faces"
    /\ UNCHANGED <<inputVars, parVars, appVars, heap, path1, path2, tempFiles, tempSeq, face1, swapVars>>

\* A faulty check, for comparison: only the first detection is looked at.
CheckFaces_first ==
    /\ pc = "faces"
    /\ IF face1 = NoRect
       THEN /\ errors' = Append(errors, "Could not detect a face in the first image.")
            /\ pc' = "done"
       ELSE /\ errors' = errors
            /\ pc' = "swap_copy"
    /\ UNCHANGED <<inputVars, parVars, appVars, heap, uiVars, swapVars, log>>

\* A faulty check, for comparison: only the second detection is looked at.
CheckFaces_second ==
    /\ pc = "faces"
    /\ IF face2 = NoRect
       THEN /\ errors' = Append(errors, "Could not detect a face in the second image.")
            /\ pc' = "done"
       ELSE /\ errors' = errors
            /\ pc' = "swap_copy"
    /\ UNCHANGED <<inputVars, parVars, appVars, heap, uiVars, swapVars, log>>

\* The two checks of the detection results, then result = swap_faces(img1, img2).
CheckFaces ==
    /\ pc = "faces"
    /\ IF face1 = NoRect
       THEN /\ errors' = Append(errors, "Could not detect a face in the first image.")
            /\ pc' = "done"
       ELSE IF face2 = NoRect
       THEN /\ errors' = Append(errors, "Could not detect a face in the second image.")
            /\ pc' = "done"
       ELSE /\ errors' = errors
            /\ pc' = "swap_copy"
    /\ UNCHANGED <<inputVars, parVars, appVars, heap, uiVars, swapVars, log>>

\* ---------------------------------------------------------------- swap_faces
\* A faulty copy, for comparison: output = img2 names the caller's buffer.
np_alias(buffer) == buffer

\* A faulty copy, for comparison: the copy is made into the buffer of img1.
np_copy_over(buffer) == "img1"

\* np.copy(img2): the buffer that holds the copy, a new one.
np_copy(buffer) == "output"

\* A faulty loop body, for comparison: a vertex that equals no hull point is
\* appended all the same, with the first source hull point.
ResolveVertex_keep(acc, t, i, hp1, hp2) ==
    LET pt  == <<t[2 * i + 1], t[2 * i + 2]>>
        idx == {k \in 1 .. Len(hp2) : hp2[k] = pt}
    IN  [pts1 |-> Append(acc.pts1, hp1[IF idx = {} THEN 1 ELSE SetMin(idx)]),
         pts2 |-> Append(acc.pts2, pt)]

\* A faulty loop body, for comparison: the source point is taken one position
\* further along the hull than the destination point.
ResolveVertex_next(acc, t, i, hp1, hp2) ==
    LET pt  == <<t[2 * i + 1], t[2 * i + 2]>>
        idx == {k \in 1 .. Len(hp2) : hp2[k] = pt}
    IN  IF idx = {} THEN acc
        ELSE [pts1 |-> Append(acc.pts1, hp1[(SetMin(idx) % Len(hp1)) + 1]),
              pts2 |-> Append(acc.pts2, pt)]

\* A faulty loop body, for comparison: of several hull points equal to the
\* vertex the last one is taken.
ResolveVertex_last(acc, t, i, hp1, hp2) ==
    LET pt  == <<t[2 * i + 1], t[2 * i + 2]>>
        idx == {k \in 1 .. Len(hp2) : hp2[k] = pt}
    IN  IF idx = {} THEN acc
        ELSE [pts1 |-> Append(acc.pts1, hp1[SetMax(idx)]), pts2 |-> Append(acc.pts2, pt)]

\* The inner loop of swap_faces over the three vertices of the triangle t:
\* a vertex that equals no hull point of the destination is left out, any
\* other is appended to pts2 and the source hull point at the first matching
\* position to pts1.
ResolveVertex(acc, t, i, hp1, hp2) ==
    LET pt  == <<t[2 * i + 1], t[2 * i + 2]>>
        idx == {k \in 1 .. Len(hp2) : hp2[k] = pt}
    IN  IF idx = {} THEN acc
        ELSE [pts1 |-> Append(acc.pts1, hp1[SetMin(idx)]), pts2 |-> Append(acc.pts2, pt)]

ResolveVertices(t, hp1, hp2) ==
    ResolveVertex(ResolveVertex(ResolveVertex([pts1 |-> << >>, pts2 |-> << >>],
        t, 0, hp1, hp2), t, 1, hp1, hp2), t, 2, hp1, hp2)

\* Where control goes when swap_faces raises or returns.
AfterRaise == IF entry = "ui" THEN "except" ELSE "done"
AfterReturn == IF entry = "ui" THEN "show" ELSE "done"

\* A faulty first step, for comparison: output = np.copy(img1).
SwapCopy_source ==
    /\ pc = "swap_copy"
    /\ dst0' = heap.img2
    /\ output' = np_copy("img1")
    /\ heap' = [heap EXCEPT ![np_copy("img1")] = heap.img1]
    /\ pc' = "swap_detect1"
    /\ UNCHANGED <<inputVars, parVars, appVars, uiVars, errors, landmarks1, landmarks2, hull2,
                   hull_points1, hull_points2, triangles, ti, warps, painted,
                   result, raised, log>>

\* output = np.copy(img2)
SwapCopy ==
    /\ pc = "swap_copy"
    /\ dst0' = heap.img2
    /\ output' = np_copy("img2")
    /\ heap' = [heap EXCEPT ![np_copy("img2")] = heap.img2]
    /\ pc' = "swap_detect1"
    /\ UNCHANGED <<inputVars, parVars, appVars, uiVars, errors, landmarks1, landmarks2, hull2,
                   hull_points1, hull_points2, triangles, ti, warps, painted,
                   result, raised, log>>

\* _, landmarks1 = detect_landmarks(img1)
SwapDetect1 ==
    /\ pc = "swap_detect1"
    /\ LET r == detect_landmarks(1)
       IN  /\ landmarks1' = r.landmarks
           /\ errors' = errors \o r.errs
           /\ log' = Append(log, DetectEvent(1, r.outcome))
    /\ pc' = "swap_detect2"
    /\ UNCHANGED <<inputVars, parVars, appVars, uiVars, heap, output, landmarks2, hull2, hull_points1,
                   hull_points2, triangles, ti, warps, painted, dst0, result, raised>>

\* _, landmarks2 = detect_landmarks(img2)
SwapDetect2 ==
    /\ pc = "swap_detect2"
    /\ LET r == detect_landmarks(2)
       IN  /\ landmarks2' = r.landmarks
           /\ errors' = errors \o r.errs
           /\ log' = Append(log, DetectEvent(2, r.outcome))
    /\ pc' = "swap_check"
    /\ UNCHANGED <<inputVars, parVars, appVars, uiVars, heap, output, landmarks1, hull2, hull_points1,
                   hull_points2, triangles, ti, warps, painted, dst0, result, raised>>

\* A faulty check, for comparison: it raises only when both landmark sets
\* are missing.
SwapCheck_both ==
    /\ pc = "swap_check"
    /\ IF landmarks1 = NoLandmarks /\ landmarks2 = NoLandmarks
       THEN /\ raised' = "ValueError: Could not detect faces in one or both images"
            /\ pc' = AfterRaise
       ELSE /\ raised' = raised
            /\ pc' = "swap_hull"
    /\ UNCHANGED <<inputVars, parVars, appVars, uiVars, heap, errors, output, landmarks1, landmarks2,
                   hull2, hull_points1, hull_points2, triangles, ti, warps, painted,
                   dst0, result, log>>

\* A faulty check, for comparison: only landmarks1 is looked at.
SwapCheck_first ==
    /\ pc = "swap_check"
    /\ IF landmarks1 = NoLandmarks
       THEN /\ raised' = "ValueError: Could not detect faces in one or both images"
            /\ pc' = AfterRaise
       ELSE /\ raised' = raised
            /\ pc' = "swap_hull"
    /\ UNCHANGED <<inputVars, parVars, appVars, uiVars, heap, errors, output, landmarks1, landmarks2,
                   hull2, hull_points1, hull_points2, triangles, ti, warps, painted,
                   dst0, result, log>>

\* if landmarks1 is None or landmarks2 is None: raise ValueError(...)
SwapCheck ==
    /\ pc = "swap_check"
    /\ IF landmarks1 = NoLandmarks \/ landmarks2 = NoLandmarks
       THEN /\ raised' = "ValueError: Could not detect faces in one or both images"
            /\ pc' = AfterRaise
       ELSE /\ raised' = raised
            /\ pc' = "swap_hull"
    /\ UNCHANGED <<inputVars, parVars, appVars, uiVars, heap, errors, output, landmarks1, landmarks2,
                   hull2, hull_points1, hull_points2, triangles, ti, warps, painted,
                   dst0, result, log>>

\* hull2 = cv2.convexHull(points2, returnPoints=False) and the two lists of
\* hull points, both taken at the indices of hull2.
SwapHull ==
    /\ pc = "swap_hull"
    /\ hull2' = convexHull(landmarks2)
    /\ hull_points1' = [i \in 1 .. Len(hull2') |-> landmarks1[hull2'[i]]]
    /\ hull_points2' = [i \in 1 .. Len(hull2') |-> landmarks2[hull2'[i]]]
    /\ log' = Append(log, Event("hull", 2))
    /\ pc' = "swap_triangulate"
    /\ UNCHANGED <<inputVars, parVars, appVars, uiVars, heap, errors, output, landmarks1, landmarks2,
                   triangles, ti, warps, painted, dst0, result, raised>>

\* The Delaunay triangulation of the destination hull points.
SwapTriangulate ==
    /\ pc = "swap_triangulate"
    /\ \E tl \in TriangleLists(hull_points2) : triangles' = tl
    /\ ti' = 1
    /\ log' = Append(log, Event("triangulate", 2))
    /\ pc' = "swap_loop"
    /\ UNCHANGED <<inputVars, parVars, appVars, uiVars, heap, errors, output, landmarks1, landmarks2,
                   hull2, hull_points1, hull_points2, warps, painted, dst0, result,
                   raised>>

\* One pass of "for t in triangles": resolve the vertices and, when all three
\* were resolved, warp_triangle(img1, output, pts1, pts2).
SwapTriangle ==
    /\ pc = "swap_loop"
    /\ ti <= Len(triangles)
    /\ LET r == ResolveVertices(triangles[ti], hull_points1, hull_points2)
           w == warp_triangle(heap.img1, heap[output], r.pts1, r.pts2)
       IN  IF Len(r.pts1) = 3 /\ Len(r.pts2) = 3
           THEN /\ warps' = Append(warps, [t |-> ti, pts1 |-> r.pts1, pts2 |-> r.pts2,
                                           error |-> w.error])
                /\ log' = Append(log, Event("warp", 0))
                /\ IF w.error # None
                   THEN /\ raised' = w.error
                        /\ pc' = AfterRaise
                        /\ UNCHANGED <<heap, painted, ti>>
                   ELSE /\ heap' = [heap EXCEPT ![output] = w.img]
                        /\ painted' = painted \cup w.mask
                        /\ ti' = ti + 1
                        /\ UNCHANGED <<raised, pc>>
           ELSE /\ ti' = ti + 1
                /\ UNCHANGED <<warps, heap, painted, raised, pc, log>>
    /\ UNCHANGED <<inputVars, parVars, appVars, uiVars, errors, output, landmarks1, landmarks2, hull2,
                   hull_points1, hull_points2, triangles, dst0, result>>

\* A faulty loop end, for comparison: after the last triangle the hull is
\* computed once more before the function returns.
SwapReturn_again ==
    /\ pc = "swap_loop"
    /\ ti > Len(triangles)
    /\ IF Cardinality({k \in DOMAIN log : log[k].op = "hull"}) < 2
       THEN /\ pc' = "swap_hull"
            /\ UNCHANGED <<result, log>>
       ELSE /\ result' = heap[output]
            /\ log' = Append(log, Event("return", 0))
            /\ pc' = AfterReturn
    /\ UNCHANGED <<inputVars, parVars, appVars, uiVars, heap, errors, output, landmarks1, landmarks2,
                   hull2, hull_points1, hull_points2, triangles, ti, warps, painted,
                   dst0, raised>>

\* return output
SwapReturn ==
    /\ pc = "swap_loop"
    /\ ti > Len(triangles)
    /\ result' = heap[output]
    /\ log' = Append(log, Event("return", 0))
    /\ pc' = AfterReturn
    /\ UNCHANGED <<inputVars, parVars, appVars, uiVars, heap, errors, output, landmarks1, landmarks2,
                   hull2, hull_points1, hull_points2, triangles, ti, warps, painted,
                   dst0, raised>>

\* The handler shows the result and offers it for download.
ShowResult ==
    /\ pc = "show"
    /\ pc' = "done"
    /\ UNCHANGED <<inputVars, parVars, appVars, uiVars, heap, errors, swapVars, log>>

\* except Exception as e: st.error(f"An error occurred: {str(e)}")
HandleException ==
    /\ pc = "except"
    /\ errors' = Append(errors, raised)
    /\ pc' = "done"
    /\ UNCHANGED <<inputVars, parVars, appVars, uiVars, heap, swapVars, log>>

Next ==
    \/ ClickSwap \/ Load1 \/ Load2 \/ CheckLoaded \/ CheckPredictor
    \/ Detect1 \/ Detect2 \/ CheckFaces
    \/ SwapCopy \/ SwapDetect1 \/ SwapDetect2 \/ SwapCheck \/ SwapHull
    \/ SwapTriangulate \/ SwapTriangle \/ SwapReturn
    \/ ShowResult \/ HandleException

Spec == Init /\ [][Next]_vars

\* ------------------------------------------------- warp_triangle on its own
\* Pictures of one colour each.
SourceColour == 200
DestColour == 7
SolidSource ==
    [w |-> ImgW + 1, h |-> ImgH - 1,
     px |-> [p \in Pixels(ImgW + 1, ImgH - 1) |-> SourceColour]]
SolidDest ==
    [w |-> ImgW, h |-> ImgH, px |-> [p \in Pixels(ImgW, ImgH) |-> DestColour]]

\* The triangles of the call: any three of the candidate points for the
\* destination (in any order, repeated and collinear points included) and,
\* for the source, the same triangle or one of its transforms.
WarpArgs ==
    {<<[i \in 1 .. 3 |-> Transform(k, t2[i])], t2>> :
        t2 \in [1 .. 3 -> CandidatePoints], k \in Transforms}

\* A call warp_triangle(img1, img2, t1, t2) on two pictures of one colour.
WarpInit ==
    /\ InitLocals
    /\ entry = "warp" /\ pc = "warp_call"
    /\ file1 = NoUpload /\ file2 = NoUpload
    /\ predictor = TRUE /\ imdecodeRaises = TRUE /\ tempfs = "ok"
    /\ det = << << >>, << >> >>
    /\ heap = [img1 |-> SolidSource, img2 |-> SolidDest, output |-> NoImage]
    /\ args \in WarpArgs
    /\ bufs = << >> /\ calls = << >>
    /\ AppsIdle

\* The call: img2 is written in place, or the exception leaves it as it was.
CallWarp ==
    /\ pc = "warp_call"
    /\ LET w == warp_triangle(heap.img1, heap.img2, args[1], args[2])
       IN  /\ heap' = [heap EXCEPT !.img2 = w.img]
           /\ painted' = w.mask
           /\ raised' = w.error
           /\ warps' = <<[t |-> 0, pts1 |-> args[1], pts2 |-> args[2], error |-> w.error]>>
    /\ dst0' = heap.img2
    /\ log' = Append(log, Event("warp", 0))
    /\ pc' = "done"
    /\ UNCHANGED <<inputVars, parVars, appVars, uiVars, errors, output, landmarks1, landmarks2, hull2,
                   hull_points1, hull_points2, triangles, ti, result>>

WarpNext == CallWarp

WarpSpec == WarpInit /\ [][WarpNext]_vars

\* ------------------------------------- load_and_prepare_image on its own
\* What the temp directory can do.
TempModes == {"ok", "raises", "fails"}

\* Two calls of load_and_prepare_image, one after the other, each on any
\* upload or on None, for either behaviour of cv2.imdecode on zero bytes and
\* every behaviour of the temp directory.
LoadInit ==
    /\ InitLocals
    /\ entry = "load" /\ pc = "load1"
    /\ predictor = TRUE
    /\ det = << << >>, << >> >>
    /\ args = << >> /\ bufs = << >> /\ calls = << >>
    /\ AppsIdle
    /\ heap = [img1 |-> NoImage, img2 |-> NoImage, output |-> NoImage]
    /\ imdecodeRaises \in BOOLEAN
    /\ tempfs \in TempModes
    /\ \E k1, k2 \in UploadKinds \cup {"none"} :
          /\ file1 = Upload(k1, DefaultScene.img1)
          /\ file2 = Upload(k2, DefaultScene.img2)

LoadNext == Load1 \/ Load2

LoadSpec == LoadInit /\ [][LoadNext]_vars

\* ------------------------------------ the loop over the triangles on its own
\* The coordinates a triangle of the list can have: hull points, and a
\* vertex of the outer triangle of Subdiv2D.
LoopPoints == {<<0, 0>>, <<2, 1>>, <<2, 3>>}
LoopVertices == LoopPoints \cup {<<3 * ImgW, 0>>}

\* The source hull point at position i: another point for every position.
SourcePoint(i) == <<(3 * (i - 1)) % ImgW, (i * i) % (ImgH - 1)>>

\* swap_faces at the head of its loop, with one triangle in the list: any
\* three vertices, and any list of three or four destination hull points,
\* equal ones included.
LoopInit ==
    /\ path1 = NoPath /\ path2 = NoPath
    /\ tempFiles = {} /\ tempSeq = 0
    /\ errors = << >>
    /\ face1 = NoRect /\ face2 = NoRect
    /\ landmarks1 = NoLandmarks /\ landmarks2 = NoLandmarks
    /\ hull2 = << >>
    /\ warps = << >> /\ painted = {}
    /\ result = NoImage /\ raised = None
    /\ log = << >>
    /\ entry = "loop" /\ pc = "swap_loop"
    /\ file1 = NoUpload /\ file2 = NoUpload
    /\ predictor = TRUE /\ imdecodeRaises = TRUE /\ tempfs = "ok"
    /\ det = << << >>, << >> >>
    /\ args = << >> /\ bufs = << >> /\ calls = << >>
    /\ AppsIdle
    /\ heap = [img1 |-> SrcPicture, img2 |-> DstPicture, output |-> DstPicture]
    /\ \E n \in 3 .. NumLandmarks, a, b, c \in LoopVertices :
          \E hp2 \in [1 .. n -> LoopPoints] :
             /\ hull_points2 = hp2
             /\ hull_points1 = [i \in 1 .. n |-> SourcePoint(i)]
             /\ triangles = <<Vec6(a, b, c)>>
             /\ ti = 1
    /\ output = "output"
    /\ dst0 = DstPicture

LoopNext == SwapTriangle \/ SwapReturn

LoopSpec == LoopInit /\ [][LoopNext]_vars

\* The face-swap page takes no part in the behaviours of the other pages.
FaceIdle ==
    /\ InitLocals
    /\ entry = "none" /\ pc = "idle"
    /\ file1 = NoUpload /\ file2 = NoUpload
    /\ predictor = TRUE /\ imdecodeRaises = TRUE /\ tempfs = "ok"
    /\ det = << << >>, << >> >>
    /\ args = << >> /\ bufs = << >> /\ calls = << >>
    /\ heap = [img1 |-> NoImage, img2 |-> NoImage, output |-> NoImage]

\* ------------------------------------------- GmailIntegration.authenticate
\* How deep authenticate may call itself before Python raises RecursionError.
RecursionLimit == 3

\* What token.json can hold: nothing (no file), a token that is valid, one
\* that has expired and has a refresh token, one that has expired without.
TokenKinds == {"none", "valid", "expired", "norefresh"}

\* How creds.refresh(Request()) behaves: it works, it raises every time, or
\* it raises the first time only.
RefreshModes == {"works", "raises", "raises_once"}

\* A new GmailIntegration object (creds and service are None) and one call
\* of authenticate on it, for every content of the two files and every
\* behaviour of the refresh and of the login flow.
GmailInit ==
    /\ FaceIdle
    /\ ssh = Idle /\ dm = Idle /\ tp = Idle
    /\ \E cf, fw \in BOOLEAN, tk \in TokenKinds, rm \in RefreshModes :
          gmail = [pc |-> "credentials", depth |-> 1,
                   creds |-> "none", service |-> FALSE,
                   credentialsFile |-> cf, tokenFile |-> tk,
                   refreshMode |-> rm, flowWorks |-> fw,
                   refreshes |-> 0, refreshFailures |-> 0, flows |-> 0,
                   shown |-> 0, ret |-> None]

GmailFrame == UNCHANGED <<faceVars, ssh, dm, tp>>

\* if not os.path.exists('credentials.json'): return False, ...
AuthCredentials ==
    /\ gmail.pc = "credentials"
    /\ gmail' = IF gmail.credentialsFile
                THEN [gmail EXCEPT !.pc = "token"]
                ELSE [gmail EXCEPT !.pc = "done", !.ret = "credentials.json not found"]
    /\ GmailFrame

\* if os.path.exists('token.json'): self.creds = Credentials.from_authorized_user_file(...)
AuthToken ==
    /\ gmail.pc = "token"
    /\ gmail' = [gmail EXCEPT !.creds = IF gmail.tokenFile # "none"
                                         THEN gmail.tokenFile ELSE @,
                              !.pc = "valid"]
    /\ GmailFrame

\* if not self.creds or not self.creds.valid: refresh, or log in; else go
\* on to build the service.
AuthValid ==
    /\ gmail.pc = "valid"
    /\ gmail' = [gmail EXCEPT !.pc = IF gmail.creds = "valid" THEN "build"
                                      ELSE IF gmail.creds = "expired" THEN "refresh"
                                      ELSE "flow"]
    /\ GmailFrame

\* Another handler, for comparison: after a failed refresh self.creds is
\* set to None before authenticate is called again.
AuthRefresh_reset ==
    /\ gmail.pc = "refresh"
    /\ LET raises == \/ gmail.refreshMode = "raises"
                     \/ gmail.refreshMode = "raises_once" /\ gmail.refreshes = 0
       IN  gmail' = IF raises
                    THEN [gmail EXCEPT !.refreshes = @ + 1, !.refreshFailures = @ + 1,
                                       !.shown = @ + 1, !.creds = "none",
                                       !.tokenFile = "none", !.pc = "recurse"]
                    ELSE [gmail EXCEPT !.refreshes = @ + 1, !.creds = "valid",
                                       !.pc = "save"]
    /\ GmailFrame

\* self.creds.refresh(Request()); when it raises the error is shown,
\* token.json is removed and authenticate is called again.  self.creds is
\* left as it was.
AuthRefresh ==
    /\ gmail.pc = "refresh"
    /\ LET raises == \/ gmail.refreshMode = "raises"
                     \/ gmail.refreshMode = "raises_once" /\ gmail.refreshes = 0
       IN  gmail' = IF raises
                    THEN [gmail EXCEPT !.refreshes = @ + 1, !.refreshFailures = @ + 1,
                                       !.shown = @ + 1,
                                       !.tokenFile = "none", !.pc = "recurse"]
                    ELSE [gmail EXCEPT !.refreshes = @ + 1, !.creds = "valid",
                                       !.pc = "save"]
    /\ GmailFrame

\* return self.authenticate(): one frame more, or RecursionError, which the
\* except clause of the calling frame turns into (False, ...); every frame
\* above returns what its callee returned.
AuthRecurse ==
    /\ gmail.pc = "recurse"
    /\ gmail' = IF gmail.depth < RecursionLimit
                THEN [gmail EXCEPT !.depth = @ + 1, !.pc = "credentials"]
                ELSE [gmail EXCEPT !.pc = "done",
                                   !.ret = "Authentication failed: RecursionError"]
    /\ GmailFrame

\* flow = InstalledAppFlow.from_client_secrets_file(...);
\* self.creds = flow.run_local_server(port=0)
AuthFlow ==
    /\ gmail.pc = "flow"
    /\ gmail' = IF gmail.flowWorks
                THEN [gmail EXCEPT !.flows = @ + 1, !.creds = "valid", !.pc = "save"]
                ELSE [gmail EXCEPT !.flows = @ + 1, !.pc = "done",
                                   !.ret = "Authentication failed: login"]
    /\ GmailFrame

\* with open('token.json', 'w') as token: token.write(self.creds.to_json())
AuthSave ==
    /\ gmail.pc = "save"
    /\ gmail' = [gmail EXCEPT !.tokenFile = "valid", !.pc = "build"]
    /\ GmailFrame

\* self.service = build('gmail', 'v1', credentials=self.creds); return True, ...
AuthBuild ==
    /\ gmail.pc = "build"
    /\ gmail' = [gmail EXCEPT !.service = TRUE, !.pc = "done",
                              !.ret = "Successfully authenticated with Gmail API"]
    /\ GmailFrame

GmailNext ==
    \/ AuthCredentials \/ AuthToken \/ AuthValid \/ AuthRefresh
    \/ AuthRecurse \/ AuthFlow \/ AuthSave \/ AuthBuild

GmailSpec == GmailInit /\ [][GmailNext]_vars

\* ------------------------------------------------ the Linux command center
\* How many button clicks and calls a session is followed for, and the
\* commands that can be chosen.
MaxSteps == 5
Commands == {"whoami", "uptime"}

\* A session of the page before its first run: st.session_state has no
\* ssh_client (inSession is FALSE).  ssh_client is 0 for None and else the
\* number of the paramiko client; connected holds the clients whose connect
\* succeeded, sent the commands sent, each with the client that sent it.
SshInit ==
    /\ FaceIdle
    /\ gmail = Idle /\ dm = Idle /\ tp = Idle
    /\ ssh = [inSession |-> FALSE, ssh_client |-> 0, created |-> 0,
              connected |-> {}, closed |-> {}, sent |-> << >>,
              last |-> "none", ret |-> None, shown |-> 0, steps |-> 0]

SshFrame == UNCHANGED <<faceVars, gmail, dm, tp>>

\* The head of show_linux_command_center, run with every click:
\* if 'ssh_client' not in st.session_state: st.session_state.ssh_client = None
PageRun(s) == [s EXCEPT !.inSession = TRUE, !.steps = @ + 1]

\* A faulty Connect, for comparison: a connection that fails leaves the
\* session's ssh_client as it was.
Connect_keep ==
    /\ ssh.steps < MaxSteps
    /\ \E filled \in BOOLEAN, ok \in BOOLEAN :
          LET s == PageRun(ssh)
          IN  ssh' = IF ~ filled
                     THEN [s EXCEPT !.last = "connect_incomplete", !.shown = @ + 1]
                     ELSE IF ok
                     THEN [s EXCEPT !.created = @ + 1, !.ssh_client = s.created + 1,
                                    !.connected = @ \cup {s.created + 1},
                                    !.last = "connect_ok"]
                     ELSE [s EXCEPT !.created = @ + 1,
                                    !.last = "connect_failed", !.shown = @ + 1]
    /\ SshFrame

\* The Connect button: with a field left empty a warning; else a new client
\* and ssh.connect(...), which stores the client in the session when it
\* succeeds and stores None when it raises.
Connect ==
    /\ ssh.steps < MaxSteps
    /\ \E filled \in BOOLEAN, ok \in BOOLEAN :
          LET s == PageRun(ssh)
          IN  ssh' = IF ~ filled
                     THEN [s EXCEPT !.last = "connect_incomplete", !.shown = @ + 1]
                     ELSE IF ok
                     THEN [s EXCEPT !.created = @ + 1, !.ssh_client = s.created + 1,
                                    !.connected = @ \cup {s.created + 1},
                                    !.last = "connect_ok"]
                     ELSE [s EXCEPT !.created = @ + 1, !.ssh_client = 0,
                                    !.last = "connect_failed", !.shown = @ + 1]
    /\ SshFrame

\* The Disconnect button, shown while ssh_client is not None: close() and
\* ssh_client = None; when close() raises the error is shown and ssh_client
\* stays.
Disconnect ==
    /\ ssh.steps < MaxSteps
    /\ ssh.inSession /\ ssh.ssh_client # 0
    /\ \E ok \in BOOLEAN :
          LET s == PageRun(ssh)
          IN  ssh' = IF ok
                     THEN [s EXCEPT !.closed = @ \cup {s.ssh_client}, !.ssh_client = 0,
                                    !.last = "disconnect_ok"]
                     ELSE [s EXCEPT !.last = "disconnect_failed", !.shown = @ + 1]
    /\ SshFrame

\* execute_ssh_command(command): without a client in the session an error
\* and None; else exec_command, which sends the command, or raises on a
\* client that is closed or has lost its connection; the output is returned
\* when stderr is empty.
Execute ==
    /\ ssh.steps < MaxSteps
    /\ \E command \in Commands, outcome \in {"output", "stderr", "raises"} :
          LET s == [ssh EXCEPT !.steps = @ + 1, !.last = "execute"]
          IN  ssh' = IF ~ ssh.inSession \/ ssh.ssh_client = 0
                     THEN [s EXCEPT !.ret = None, !.shown = @ + 1]
                     ELSE IF outcome = "raises" \/ ssh.ssh_client \in ssh.closed
                     THEN [s EXCEPT !.ret = None, !.shown = @ + 1]
                     ELSE [s EXCEPT
                             !.sent = Append(@, [client |-> ssh.ssh_client,
                                                 command |-> command]),
                             !.ret = IF outcome = "output" THEN command ELSE None,
                             !.shown = IF outcome = "stderr" THEN @ + 1 ELSE @]
    /\ SshFrame

SshNext == Connect \/ Disconnect \/ Execute

SshSpec == SshInit /\ [][SshNext]_vars

\* ------------------------------------------------ the LinkedIn DM handler
\* What start_driver can do: start the browser; fail before there is a
\* driver (webdriver.Chrome raises); fail after self.driver was set
\* (maximize_window raises).
StartOutcomes == {"ok", "no_browser", "no_window"}

\* One submit of the form: whether all fields are filled, what start_driver,
\* login and send_dm do, whether showing the result raises and whether
\* driver.quit() raises.
DmInit ==
    /\ FaceIdle
    /\ gmail = Idle /\ ssh = Idle /\ tp = Idle
    /\ \E filled, loginOk, sendOk, showRaises, quitRaises \in BOOLEAN,
          start \in StartOutcomes :
          dm = [pc |-> "submit", driver |-> "none",
                filled |-> filled, start |-> start, loginOk |-> loginOk,
                sendOk |-> sendOk, showRaises |-> showRaises,
                quitRaises |-> quitRaises,
                started |-> FALSE, loggedIn |-> FALSE, sends |-> 0,
                closes |-> 0, quits |-> 0, escaped |-> None, shown |-> 0]

DmFrame == UNCHANGED <<faceVars, gmail, ssh, tp>>

\* LinkedInDMSender.close: with a driver, quit() inside try/except that
\* lets nothing out; without one, nothing.
close(d) ==
    IF d.driver = "none" THEN [d EXCEPT !.closes = @ + 1]
    ELSE [d EXCEPT !.closes = @ + 1, !.quits = @ + 1,
                   !.driver = IF d.quitRaises THEN @ ELSE "quit"]

\* if submit: with a field left empty a warning and nothing else.
DmSubmit ==
    /\ dm.pc = "submit"
    /\ dm' = IF dm.filled THEN [dm EXCEPT !.pc = "start"]
             ELSE [dm EXCEPT !.pc = "done", !.shown = @ + 1]
    /\ DmFrame

\* dm_sender.start_driver(); when it failed the error is shown and the
\* handler returns, through the finally clause.
DmStart ==
    /\ dm.pc = "start"
    /\ dm' = CASE dm.start = "ok" ->
                    [dm EXCEPT !.driver = "running", !.started = TRUE, !.pc = "login"]
               [] dm.start = "no_browser" ->
                    [dm EXCEPT !.shown = @ + 1, !.pc = "finally"]
               [] dm.start = "no_window" ->
                    [dm EXCEPT !.driver = "running", !.shown = @ + 1, !.pc = "finally"]
    /\ DmFrame

\* dm_sender.login(email, password); when it failed the error is shown,
\* close() is called and the handler returns, through the finally clause.
DmLogin ==
    /\ dm.pc = "login"
    /\ dm' = IF dm.loginOk
             THEN [dm EXCEPT !.loggedIn = TRUE, !.pc = "send"]
             ELSE [close(dm) EXCEPT !.shown = @ + 1, !.pc = "finally"]
    /\ DmFrame

\* dm_sender.send_dm(profile_url, message) and the display of its result,
\* which may raise.
DmSend ==
    /\ dm.pc = "send"
    /\ dm' = [dm EXCEPT !.sends = @ + 1,
                        !.shown = IF dm.showRaises THEN @ ELSE @ + 1,
                        !.pc = IF dm.showRaises THEN "except" ELSE "finally"]
    /\ DmFrame

\* except Exception as e: st.error(...)
DmExcept ==
    /\ dm.pc = "except"
    /\ dm' = [dm EXCEPT !.shown = @ + 1, !.pc = "finally"]
    /\ DmFrame

\* A faulty finally clause, for comparison: it does not call close().
DmFinally_open ==
    /\ dm.pc = "finally"
    /\ dm' = [dm EXCEPT !.pc = "done"]
    /\ DmFrame

\* finally: try: dm_sender.close() except: pass
DmFinally ==
    /\ dm.pc = "finally"
    /\ dm' = [close(dm) EXCEPT !.pc = "done"]
    /\ DmFrame

DmNext == DmSubmit \/ DmStart \/ DmLogin \/ DmSend \/ DmExcept \/ DmFinally

DmSpec == DmInit /\ [][DmNext]_vars

\* ------------------------------------------------------- TrainingProgress
\* How many callbacks are followed, and the epoch numbers and the values of
\* total_epochs they are followed for.
MaxCallbacks == 4
EpochNumbers == {-2, 0, 1, 3}
TotalEpochs == {-1, 0, 1, 2}

\* A faulty progress, for comparison: (epoch + 1) / total_epochs as it is.
Progress_raw(epoch, total_epochs) == <<epoch + 1, total_epochs>>

\* progress = min(1.0, max(0.0, (epoch + 1) / max(1, self.total_epochs))),
\* as the fraction <<numerator, denominator>>.
Progress(epoch, total_epochs) ==
    LET d == Max2(1, total_epochs)
    IN  IF epoch + 1 <= 0 THEN <<0, 1>>
        ELSE IF epoch + 1 >= d THEN <<1, 1>>
        ELSE <<epoch + 1, d>>

\* TrainingProgress(progress_bar, status_text, total_epochs): _active is
\* True.  barValues holds the values passed to progress_bar.progress,
\* barCalls and textCalls count the calls made to the two widgets and
\* skipped the calls of on_epoch_end that returned at once.
TpInit ==
    /\ FaceIdle
    /\ gmail = Idle /\ ssh = Idle /\ dm = Idle
    /\ \E total \in TotalEpochs, hasBar, hasText \in BOOLEAN :
          tp = [active |-> TRUE, total_epochs |-> total,
                hasBar |-> hasBar, hasText |-> hasText,
                barValues |-> {}, barCalls |-> 0, textCalls |-> 0,
                skipped |-> 0, last |-> "init", steps |-> 0]

TpFrame == UNCHANGED <<faceVars, gmail, ssh, dm>>

\* on_train_begin: self._active = True
on_train_begin ==
    /\ tp.steps < MaxCallbacks
    /\ tp' = [tp EXCEPT !.active = TRUE, !.last = "train_begin", !.steps = @ + 1]
    /\ TpFrame

\* on_train_end: self._active = False
on_train_end ==
    /\ tp.steps < MaxCallbacks
    /\ tp' = [tp EXCEPT !.active = FALSE, !.last = "train_end", !.steps = @ + 1]
    /\ TpFrame

\* on_epoch_end(epoch, logs): nothing when not active; else the progress
\* bar is updated, and when that raises the callback becomes inactive and
\* returns; then the status text is updated, and when the formatting of the
\* status or that update raises the callback becomes inactive.
on_epoch_end ==
    /\ tp.steps < MaxCallbacks
    /\ \E epoch \in EpochNumbers, barRaises, formatRaises, textRaises \in BOOLEAN :
          LET s == [tp EXCEPT !.last = "epoch_end", !.steps = @ + 1]
              b == IF tp.hasBar
                   THEN [s EXCEPT !.barCalls = @ + 1,
                                  !.barValues = @ \cup {Progress(epoch, tp.total_epochs)}]
                   ELSE s
          IN  tp' = IF ~ tp.active THEN [s EXCEPT !.skipped = @ + 1]
                    ELSE IF tp.hasBar /\ barRaises THEN [b EXCEPT !.active = FALSE]
                    ELSE IF formatRaises THEN [b EXCEPT !.active = FALSE]
                    ELSE IF ~ tp.hasText THEN b
                    ELSE IF textRaises
                    THEN [b EXCEPT !.textCalls = @ + 1, !.active = FALSE]
                    ELSE [b EXCEPT !.textCalls = @ + 1]
    /\ TpFrame

TpNext == on_train_begin \/ on_train_end \/ on_epoch_end

TpSpec == TpInit /\ [][TpNext]_vars

\* ------------------------------------------------------------- properties
\* The members of a sequence.
Range(q) == {q[i] : i \in DOMAIN q}

\* The integer point p lies in the closed convex hull of the points of L.
InClosedHull(p, L) ==
    \/ \E i \in DOMAIN L : L[i] = p
    \/ \E i, j \in DOMAIN L : L[i] # L[j] /\ OnSegment(p, L[i], L[j])
    \/ \E i, j, k \in DOMAIN L : InTriangle(p, L[i], L[j], L[k])

\* The integer point p lies inside the convex hull of the points of L, its
\* boundary included, and the hull is not degenerate.
InsideHull(p, L) ==
    \E i, j, k \in DOMAIN L : InTriangle(p, L[i], L[j], L[k])

\* swap_faces returned an image.
Returned == result # NoImage

\* The pixels whose value in the returned image differs from the destination.
Changed == {p \in DOMAIN result.px : result.px[p] # dst0.px[p]}

\* The pixels of the destination that the mask of the k-th warp covers.
MaskOfWarp(k) ==
    LET r2 == boundingRect(warps[k].pts2)
    IN  {<<q[1] + r2[1], q[2] + r2[2]>> :
            q \in fillConvexPoly(r2[3], r2[4], Relative(warps[k].pts2, r2))}

\* The pixels within the bounding rectangle of the destination hull points.
InHullRect(p) ==
    LET r == boundingRect(hull_points2)
    IN  /\ r[1] <= p[1] /\ p[1] < r[1] + r[3]
        /\ r[2] <= p[2] /\ p[2] < r[2] + r[4]

\* C1 as stated: whenever swap_faces returns an image, every pixel strictly
\* outside the convex hull of the destination landmarks has the value it has
\* in img2.
C1_OutsideHullUnchanged ==
    Returned => \A p \in Changed : InClosedHull(p, landmarks2)

\* C1 amended: whenever swap_faces returns an image, every pixel that differs
\* from img2 lies in the rasterised mask of a triangle that was warped, and
\* inside the bounding rectangle of the destination hull points; every pixel
\* outside these masks has the value it has in img2.
C1_OutsideMasksUnchanged ==
    Returned => \A p \in Changed :
                    /\ \E k \in DOMAIN warps : p \in MaskOfWarp(k)
                    /\ InHullRect(p)

\* C1's case: an image was returned in which a pixel strictly outside the
\* hull differs from img2 while a pixel of its rectangle outside every mask
\* kept its value.
C1_Witness ==
    /\ Returned
    /\ \E p \in Changed : ~ InClosedHull(p, landmarks2)
    /\ \E p \in DOMAIN result.px :
          /\ InHullRect(p) /\ p \notin Changed
          /\ \A k \in DOMAIN warps : p \notin MaskOfWarp(k)

\* The no-face error of swap_faces.
NoFaceError == "ValueError: Could not detect faces in one or both images"

\* swap_faces has passed its check of the two landmark sets.
PastCheck ==
    pc \in {"swap_hull", "swap_triangulate", "swap_loop", "show", "except", "done"}

\* swap_faces was called, and detection gave no landmarks for a picture.
CalledWithoutFace ==
    /\ output # None
    /\ PastCheck
    /\ landmarks1 = NoLandmarks \/ landmarks2 = NoLandmarks

\* C2: when detection yields no landmarks for the source or the destination
\* picture, swap_faces raises the no-face error before warp_triangle is
\* called once, returns no image and has written nothing to its copy.
C2_NoFaceFailsFast ==
    CalledWithoutFace =>
        /\ raised = NoFaceError
        /\ warps = << >>
        /\ result = NoImage
        /\ heap[output] = dst0

\* C2's case: swap_faces was called directly, detection found a face in only
\* one of the two pictures, and the call has ended with the no-face error.
C2_Witness ==
    /\ entry = "direct" /\ pc = "done"
    /\ CalledWithoutFace
    /\ landmarks1 # landmarks2
    /\ raised = NoFaceError

\* C3: from the call of swap_faces on, whether it returns or raises and
\* however many triangles were warped, the caller's img2 holds the pixel
\* values it held at the call; the writes go to another buffer.
C3_DestinationNotMutated ==
    output # None => /\ heap.img2 = dst0
                     /\ output # "img2"

\* C3's case: swap_faces has ended by raising in a later triangle after it
\* wrote the warped pixels of an earlier one.
C3_Witness ==
    /\ pc = "done"
    /\ output # None
    /\ heap[output] # dst0
    /\ raised # None

\* C4 as stated: after all triangles were processed, every pixel inside the
\* convex hull of the destination landmarks is covered by the mask of a
\* triangle that was warped.
C4_HullCovered ==
    Returned => \A p \in DOMAIN result.px : InsideHull(p, landmarks2) => p \in painted

\* C4 amended: after all triangles were processed, every pixel inside the
\* destination triangle of a warp (its three vertices and its edges included)
\* is covered by the mask of that warp; pixels of the hull outside every
\* listed triangle are not overwritten.
C4_WarpedTrianglesCovered ==
    Returned => \A k \in DOMAIN warps : \A p \in DOMAIN result.px :
                    InClosedHull(p, warps[k].pts2) => p \in MaskOfWarp(k) /\ p \in painted

\* C4's case: an image was returned after two warps, one of a triangle that
\* holds a pixel which is none of its vertices.
C4_Witness ==
    /\ Returned
    /\ Len(warps) >= 2
    /\ \E k \in DOMAIN warps : \E p \in DOMAIN result.px :
          /\ InClosedHull(p, warps[k].pts2)
          /\ p \notin Range(warps[k].pts2)

\* A vertex of the triangle t equals no destination hull point.
Unresolved(t) ==
    \E i \in 0 .. 2 : <<t[2 * i + 1], t[2 * i + 2]>> \notin Range(hull_points2)

\* C5: a listed triangle with a vertex that equals no destination hull point
\* is passed over: warp_triangle is not called for it, nothing is raised or
\* written, and the loop goes on to the next triangle.
C5_UnresolvedDiscarded ==
    [][(pc = "swap_loop" /\ ti <= Len(triangles) /\ Unresolved(triangles[ti]))
          => /\ pc' = "swap_loop" /\ ti' = ti + 1
             /\ warps' = warps /\ raised' = raised
             /\ heap' = heap /\ errors' = errors]_vars

\* C5's case: the list held a triangle with an unresolved vertex before and
\* after a triangle that was warped, and swap_faces returned an image.
C5_Witness ==
    /\ Returned
    /\ \E k \in DOMAIN warps : \E i, j \in DOMAIN triangles :
          /\ i < warps[k].t /\ warps[k].t < j
          /\ Unresolved(triangles[i]) /\ Unresolved(triangles[j])

\* C6: for every triangle handed to warp_triangle, vertex m of the source
\* triangle is the source landmark with the landmark index, taken from
\* hull2, of vertex m of the destination triangle.
C6_SameLandmarkIndices ==
    \A k \in DOMAIN warps : \A m \in 1 .. 3 :
        /\ \E n \in Range(hull2) : landmarks2[n] = warps[k].pts2[m]
        /\ \A n \in Range(hull2) :
              landmarks2[n] = warps[k].pts2[m] => landmarks1[n] = warps[k].pts1[m]

\* C6's case: a triangle was warped whose hull indices are not the first
\* landmarks in order and whose source vertices differ from one another and
\* from the destination vertices.
C6_Witness ==
    \E k \in DOMAIN warps :
        /\ hull2 # <<1, 2, 3>>
        /\ Cardinality(Range(warps[k].pts1)) = 3
        /\ \A m \in 1 .. 3 : warps[k].pts1[m] # warps[k].pts2[m]

\* C7 as stated: when a request of the page has finished, no temporary file
\* that load_and_prepare_image created during it still exists.
C7_NoTempFileLeft ==
    (entry = "ui" /\ pc = "done") => tempFiles = {}

\* The messages load_and_prepare_image shows when decoding fails.
DecodeErrors ==
    {"Error loading image: imdecode failed",
     "Error loading image: Could not decode the image"}

\* The upload f cannot be decoded.
Undecodable(f) == f.kind \in {"empty", "garbage"}

\* The request has called load_and_prepare_image on the first upload, and on
\* both uploads.
Loaded1 ==
    /\ entry = "ui" /\ file1.kind # "none" /\ file2.kind # "none"
    /\ pc \notin {"button", "load1"}
Loaded2 == Loaded1 /\ pc # "load2"

\* C8: for empty bytes and for bytes that are no image,
\* load_and_prepare_image reports a decode error and returns no image (and
\* the empty path).
C8_UndecodableYieldsNoImage ==
    /\ (Loaded1 /\ Undecodable(file1))
          => /\ heap.img1 = NoImage /\ path1 = NoPath
             /\ \E i \in DOMAIN errors : errors[i] \in DecodeErrors
    /\ (Loaded2 /\ Undecodable(file2))
          => /\ heap.img2 = NoImage /\ path2 = NoPath
             /\ \E i \in DOMAIN errors : errors[i] \in DecodeErrors
    /\ (Loaded2 /\ Undecodable(file1) /\ Undecodable(file2))
          => Cardinality({i \in DOMAIN errors : errors[i] \in DecodeErrors}) = 2

\* C8's case: the request has ended after loading zero bytes as the first
\* upload and bytes that are no image as the second.
C8_Witness ==
    /\ entry = "ui" /\ pc = "done"
    /\ file1.kind = "empty" /\ file2.kind = "garbage"
    /\ Len(errors) = 3

\* C9: an image that swap_faces returns has the height, the width and the
\* channel count of img2, whatever the dimensions of img1.
C9_ResultHasDestinationShape ==
    Returned => shape(result) = shape(heap.img2)

\* C9's case: an image was returned, warped from a source picture of another
\* width and another height.
C9_Witness ==
    /\ Returned
    /\ warps # << >>
    /\ heap.img1.w # heap.img2.w /\ heap.img1.h # heap.img2.h

\* swap_faces is called on two equal pictures with equal landmarks.
IdentitySwap ==
    /\ output # None
    /\ heap.img1 = heap.img2
    /\ landmarks1 = landmarks2 \/ pc \in {"swap_detect1", "swap_detect2", "swap_check"}
    /\ det[1] = det[2]

\* C10: when source and destination are equal pictures with equal landmarks,
\* every warped triangle has equal source and destination vertices, every
\* warp leaves the copy equal to img2 and the image returned equals img2 at
\* every pixel.
C10_IdentitySwap ==
    IdentitySwap =>
        /\ \A k \in DOMAIN warps : warps[k].pts1 = warps[k].pts2
        /\ heap[output] = dst0
        /\ Returned => result = heap.img2

\* C10's case: an identity swap returned after warping two triangles, one of
\* them with a bounding rectangle that does not start at the picture's corner.
C10_Witness ==
    /\ IdentitySwap
    /\ Returned
    /\ Len(warps) >= 2
    /\ \E k \in DOMAIN warps : boundingRect(warps[k].pts1)[2] > 0

\* The detection events of the log, and those on picture i.
Detections == {k \in DOMAIN log : log[k].op = "detect"}
DetectionsOf(i) == {k \in Detections : log[k].img = i}

\* C12: when the detector finds several faces in a picture, detect_landmarks
\* returns the rectangle and the landmarks of the first of them: every
\* rectangle and every landmark set that a detection returned is that of
\* det[i][1], and a detection with the predictor at hand on a picture with
\* faces returns a face.
C12_FirstFaceTaken ==
    /\ face1 # NoRect => det[1] # << >> /\ face1 = det[1][1].rect
    /\ face2 # NoRect => det[2] # << >> /\ face2 = det[2][1].rect
    /\ landmarks1 # NoLandmarks => det[1] # << >> /\ landmarks1 = det[1][1].parts
    /\ landmarks2 # NoLandmarks => det[2] # << >> /\ landmarks2 = det[2][1].parts
    /\ \A k \in Detections :
          (predictor /\ det[log[k].img] # << >>) <=> log[k].outcome = "face"

\* C12's case: both pictures show two different faces, the page's detection
\* and that of swap_faces have run on both and the swap has returned.
C12_Witness ==
    /\ entry = "ui" /\ Returned
    /\ \A i \in 1 .. 2 : Len(det[i]) = 2 /\ det[i][1] # det[i][2]
    /\ face1 = det[1][1].rect /\ landmarks2 = det[2][1].parts

\* The request, or the direct call, has ended.
Ended == pc = "done"

\* The messages of the page for a picture without a face.
NoFaceMessages ==
    {"Could not detect a face in the first image.",
     "Could not detect a face in the second image."}

\* The no-face condition was reported: by the page, or by swap_faces.
NoFaceReported ==
    \/ \E i \in DOMAIN errors : errors[i] \in NoFaceMessages
    \/ raised = NoFaceError

\* C14 as stated: an exception raised inside detect_landmarks (the missing
\* shape predictor file) is surfaced as that error; the caller is not told
\* instead that no face was detected.
C14_DetectionErrorNotNoFace ==
    (Ended /\ \E k \in Detections : log[k].outcome = "error") => ~ NoFaceReported

\* The decoding attempts of the log on upload i.
DecodesOf(i) == {k \in DOMAIN log : log[k].op = "decode" /\ log[k].img = i}

\* C15 as stated: one call of load_and_prepare_image decodes the uploaded
\* bytes at most once; no second attempt follows a failed one.
C15_DecodedAtMostOnce ==
    \A i \in 1 .. 2 : Cardinality(DecodesOf(i)) <= 1

\* C16: once the detector has reported no face for a picture,
\* detect_landmarks is not called on that picture again, and the request
\* (or the direct call) ends with the no-face condition reported.
C16_NoFaceTerminal ==
    /\ \A j, k \in Detections :
          (j < k /\ log[j].img = log[k].img) => log[j].outcome # "noface"
    /\ (Ended /\ \E k \in Detections : log[k].outcome = "noface") =>
          /\ NoFaceReported
          /\ result = NoImage /\ warps = << >>

\* C16's case: a request of the page has ended after the detector found a
\* face in the first picture and none in the second.
C16_Witness ==
    /\ entry = "ui" /\ Ended
    /\ det[1] # << >> /\ det[2] = << >>
    /\ Cardinality(Detections) = 2
    /\ NoFaceReported

\* The stage an entry of the log belongs to.
Stage(e) ==
    CASE e.op \in {"decode", "load"} -> 1
      [] e.op = "detect"             -> 2
      [] e.op = "hull"               -> 3
      [] e.op = "triangulate"        -> 4
      [] e.op = "warp"               -> 5
      [] e.op = "return"             -> 6

\* The entries of the log with the operation op.
Logged(op) == {k \in DOMAIN log : log[k].op = op}

\* C17: the stages occur in the order load, detect, hull, triangulation,
\* warp, return; the hull and the triangulation are each computed at most
\* once, and exactly once, hull first, before the first warp and before the
\* return.
C17_StagesInOrder ==
    /\ \A j, k \in DOMAIN log : j < k => Stage(log[j]) <= Stage(log[k])
    /\ Cardinality(Logged("hull")) <= 1
    /\ Cardinality(Logged("triangulate")) <= 1
    /\ Cardinality(Logged("return")) <= 1
    /\ (Logged("warp") \cup Logged("return")) # {} =>
          Cardinality(Logged("hull")) = 1 /\ Cardinality(Logged("triangulate")) = 1

\* C17's case: a request of the page went through every stage: two loads,
\* detections, hull, triangulation, two warps and the return.
C17_Witness ==
    /\ entry = "ui" /\ Ended /\ Returned
    /\ Cardinality(Logged("load")) = 2
    /\ Cardinality(Logged("detect")) = 4
    /\ Cardinality(Logged("warp")) >= 2

\* swap_faces has gone on after its check of the two landmark sets.
ProceededPastCheck == output # None /\ PastCheck /\ raised # NoFaceError

\* C18: whenever swap_faces goes on after the detection check, both landmark
\* sets are present with the full point count, every index of the
\* destination hull is an index of the source landmarks, and the two lists
\* of hull points are as long as the hull.
C18_FullLandmarkSets ==
    ProceededPastCheck =>
        /\ Len(landmarks1) = NumLandmarks /\ Len(landmarks2) = NumLandmarks
        /\ \A n \in Range(hull2) : n \in DOMAIN landmarks1 /\ n \in DOMAIN landmarks2
        /\ Len(hull_points1) = Len(hull2) /\ Len(hull_points2) = Len(hull2)
        /\ pc \notin {"swap_hull"} => Len(hull2) >= 1

\* C18's case: swap_faces is in its loop with a hull of four landmarks, taken
\* from landmark sets that differ.
C18_Witness ==
    /\ pc = "swap_loop"
    /\ Len(hull2) = 4
    /\ landmarks1 # landmarks2

\* The three points of the triangle t lie on one line.
Collinear(t) == Cross(t[1], t[2], t[3]) = 0

\* The loop of swap_faces is about to call warp_triangle on a triangle whose
\* source points or destination points are collinear.
CollinearNext ==
    /\ pc = "swap_loop" /\ ti <= Len(triangles)
    /\ LET r == ResolveVertices(triangles[ti], hull_points1, hull_points2)
       IN  /\ Len(r.pts1) = 3 /\ Len(r.pts2) = 3
           /\ Collinear(r.pts1) \/ Collinear(r.pts2)

\* C19 as stated: a triangle with collinear points that reaches the warp
\* step is skipped: the destination buffer is unchanged by it, nothing is
\* raised and the loop goes on with the next triangle.
C19_CollinearSkipped ==
    [][CollinearNext => /\ heap' = heap
                        /\ raised' = raised
                        /\ pc' = "swap_loop" /\ ti' = ti + 1]_vars

\* The value warpAffine computes for the pixel p of the destination in the
\* call warp_triangle(img1, _, t1, t2).
WarpedValue(img1, t1, t2, p) ==
    LET r1 == boundingRect(t1)
        r2 == boundingRect(t2)
    IN  warpAffine(img1, Slice(img1, r1), Relative(t1, r1), Relative(t2, r2),
                   <<r2[3], r2[4]>>)[<<p[1] - r2[1], p[2] - r2[2]>>]

\* The pixels of the destination that the mask of the triangle t2 covers.
MaskOf(t2) ==
    LET r2 == boundingRect(t2)
    IN  {<<q[1] + r2[1], q[2] + r2[2]>> :
            q \in fillConvexPoly(r2[3], r2[4], Relative(t2, r2))}

\* C20: every value a call of warp_triangle leaves in the destination is an
\* 8-bit value, 0 .. 255, equal to dest * (1 - mask) + warped * mask: the
\* warped source value where the mask is 1 and the previous destination
\* value where it is 0.
C20_BlendWritten ==
    [][(pc = "swap_loop" /\ Len(warps') > Len(warps)
            /\ warps'[Len(warps')].error = None)
        => LET w == warps'[Len(warps')]
           IN  \E mask \in {MaskOf(w.pts2)} :
               \A p \in DOMAIN heap[output].px :
                  /\ heap'[output].px[p] \in 0 .. 255
                  /\ p \in mask =>
                        heap'[output].px[p] = WarpedValue(heap.img1, w.pts1, w.pts2, p)
                  /\ p \notin mask =>
                        heap'[output].px[p] = heap[output].px[p]]_vars

\* C20's case: the loop has warped one triangle; a pixel under its mask has
\* a new value and a pixel of its bounding rectangle outside the mask has
\* the value it had.
C20_Witness ==
    /\ pc = "swap_loop" /\ Len(warps) = 1 /\ warps[1].error = None
    /\ \E p \in MaskOf(warps[1].pts2) : heap[output].px[p] # dst0.px[p]
    /\ LET r2 == boundingRect(warps[1].pts2)
       IN  \E p \in DOMAIN dst0.px :
              /\ r2[1] <= p[1] /\ p[1] < r2[1] + r2[3]
              /\ r2[2] <= p[2] /\ p[2] < r2[2] + r2[4]
              /\ p \notin MaskOf(warps[1].pts2)
              /\ heap[output].px[p] = dst0.px[p]

\* The call of warp_triangle on its own has returned.
WarpReturned == entry = "warp" /\ pc = "done" /\ raised = None

\* C11 as stated: for a source and a destination of one colour each, after
\* warp_triangle every pixel of img2 inside the triangle t2 has the source
\* colour and every pixel outside t2 has the destination colour.
C11_SolidInsideOutside ==
    WarpReturned =>
        \A p \in DOMAIN heap.img2.px :
            heap.img2.px[p] = IF InClosedHull(p, args[2]) THEN SourceColour
                              ELSE DestColour

\* C11 amended: after warp_triangle every pixel of img2 under the rasterised
\* mask of t2, which holds every pixel inside t2, has the source colour and
\* every pixel outside the mask has the destination colour.
C11_SolidMaskExact ==
    WarpReturned =>
        \A p \in DOMAIN heap.img2.px :
            /\ InClosedHull(p, args[2]) => p \in MaskOf(args[2])
            /\ heap.img2.px[p] = IF p \in MaskOf(args[2]) THEN SourceColour
                                 ELSE DestColour

\* C11's case: the call returned for a proper triangle away from the corner
\* of the picture, whose mask holds a pixel inside the triangle that is no
\* vertex, and a pixel outside the triangle.
C11_Witness ==
    /\ WarpReturned
    /\ ~ Collinear(args[2]) /\ args[1] # args[2]
    /\ boundingRect(args[2])[1] > 0
    /\ \E p \in DOMAIN heap.img2.px :
          InClosedHull(p, args[2]) /\ p \notin Range(args[2])
    /\ \E p \in painted : ~ InClosedHull(p, args[2])
\* ------------------------------------------------ concurrent swap_faces
\* Two calls of swap_faces in one process, their steps interleaved.  Call c
\* is given the buffers 2c - 1 (img1) and 2c (img2); detection on a picture
\* depends on the picture alone, det[b] for buffer b.
Calls == 1 .. 2
Img1Of(c) == 2 * c - 1
Img2Of(c) == 2 * c

\* The landmark sets of the calls: a hull of four points, a hull of three,
\* and a hull with a point beyond the picture.
QuadLandmarks == [i \in 1 .. NumLandmarks |-> IF i = 1 THEN <<0, 0>>
                                               ELSE IF i = 2 THEN <<2, 1>>
                                               ELSE IF i = 3 THEN <<2, 3>>
                                               ELSE <<3, 4>>]
EdgeLandmarks == [i \in 1 .. NumLandmarks |-> IF i = 1 THEN <<0, 0>>
                                               ELSE IF i = 2 THEN <<2, 1>>
                                               ELSE IF i = 3 THEN <<ImgW, 3>>
                                               ELSE <<2, 3>>]

\* What a call can be given: two pictures and what detection finds in them.
ParScenes ==
    {[img1 |-> SrcPicture, img2 |-> DstPicture, lm1 |-> QuadLandmarks, lm2 |-> QuadLandmarks],
     [img1 |-> DstPicture, img2 |-> SrcPicture, lm1 |-> OtherLandmarks, lm2 |-> DefaultLandmarks],
     [img1 |-> SrcPicture, img2 |-> DstPicture, lm1 |-> QuadLandmarks, lm2 |-> EdgeLandmarks],
     [img1 |-> SrcPicture, img2 |-> DstPicture, lm1 |-> NoLandmarks, lm2 |-> QuadLandmarks]}

\* The local variables of a call that has not started.
NewCall ==
    [pc |-> "swap_copy", output |-> 0,
     landmarks1 |-> NoLandmarks, landmarks2 |-> NoLandmarks,
     hull_points1 |-> << >>, hull_points2 |-> << >>,
     triangles |-> << >>, ti |-> 0, result |-> NoImage, raised |-> None]

ParInit ==
    /\ InitLocals
    /\ entry = "par" /\ pc = "par"
    /\ file1 = NoUpload /\ file2 = NoUpload
    /\ predictor = TRUE /\ imdecodeRaises = TRUE /\ tempfs = "ok"
    /\ args = << >>
    /\ heap = [img1 |-> NoImage, img2 |-> NoImage, output |-> NoImage]
    /\ calls = [c \in Calls |-> NewCall]
    /\ AppsIdle
    /\ \E s1, s2 \in ParScenes :
          /\ bufs = <<s1.img1, s1.img2, s2.img1, s2.img2>>
          /\ det = <<Faces(s1.lm1), Faces(s1.lm2), Faces(s2.lm1), Faces(s2.lm2)>>

\* A faulty copy, for comparison: every call copies into one buffer that
\* the process keeps, the fifth.
np_copy_static(buffers, b) ==
    [bufs |-> IF Len(buffers) >= 5 THEN [buffers EXCEPT ![5] = buffers[b]]
              ELSE Append(buffers, buffers[b]),
     id   |-> 5]

\* np.copy(img2) in a process that holds the buffers `buffers`: a new buffer
\* with the contents of buffer b, and its number.
np_copy_new(buffers, b) ==
    [bufs |-> Append(buffers, buffers[b]), id |-> Len(buffers) + 1]

\* The steps of call c leave everything but bufs and calls as it is.
ParFrame == UNCHANGED <<inputVars, appVars, uiVars, swapVars, heap, errors, pc, log>>

\* output = np.copy(img2)
ParCopy(c) ==
    /\ calls[c].pc = "swap_copy"
    /\ LET r == np_copy_new(bufs, Img2Of(c))
       IN  /\ bufs' = r.bufs
           /\ calls' = [calls EXCEPT ![c].output = r.id, ![c].pc = "swap_detect"]
    /\ ParFrame

\* The two detections and the check of their results.
ParDetect(c) ==
    /\ calls[c].pc = "swap_detect"
    /\ LET l1 == detect_landmarks(Img1Of(c)).landmarks
           l2 == detect_landmarks(Img2Of(c)).landmarks
       IN  calls' = [calls EXCEPT
                ![c].landmarks1 = l1,
                ![c].landmarks2 = l2,
                ![c].raised = IF l1 = NoLandmarks \/ l2 = NoLandmarks
                              THEN "ValueError: Could not detect faces in one or both images"
                              ELSE None,
                ![c].pc = IF l1 = NoLandmarks \/ l2 = NoLandmarks
                          THEN "done" ELSE "swap_hull"]
    /\ UNCHANGED bufs
    /\ ParFrame

\* The hull, the two lists of hull points and the triangle list.
ParTriangulate(c) ==
    /\ calls[c].pc = "swap_hull"
    /\ LET h   == convexHull(calls[c].landmarks2)
           hp1 == [i \in 1 .. Len(h) |-> calls[c].landmarks1[h[i]]]
           hp2 == [i \in 1 .. Len(h) |-> calls[c].landmarks2[h[i]]]
       IN  \E tl \in TriangleLists(hp2) :
              calls' = [calls EXCEPT ![c].hull_points1 = hp1, ![c].hull_points2 = hp2,
                                     ![c].triangles = tl, ![c].ti = 1,
                                     ![c].pc = "swap_loop"]
    /\ UNCHANGED bufs
    /\ ParFrame

\* One pass of the loop over the triangles: warp_triangle(img1, output, ...).
ParTriangle(c) ==
    /\ calls[c].pc = "swap_loop"
    /\ calls[c].ti <= Len(calls[c].triangles)
    /\ LET r == ResolveVertices(calls[c].triangles[calls[c].ti],
                                calls[c].hull_points1, calls[c].hull_points2)
           w == warp_triangle(bufs[Img1Of(c)], bufs[calls[c].output], r.pts1, r.pts2)
       IN  IF Len(r.pts1) = 3 /\ Len(r.pts2) = 3
           THEN IF w.error # None
                THEN /\ calls' = [calls EXCEPT ![c].raised = w.error, ![c].pc = "done"]
                     /\ UNCHANGED bufs
                ELSE /\ bufs' = [bufs EXCEPT ![calls[c].output] = w.img]
                     /\ calls' = [calls EXCEPT ![c].ti = @ + 1]
           ELSE /\ calls' = [calls EXCEPT ![c].ti = @ + 1]
                /\ UNCHANGED bufs
    /\ ParFrame

\* return output
ParReturn(c) ==
    /\ calls[c].pc = "swap_loop"
    /\ calls[c].ti > Len(calls[c].triangles)
    /\ calls' = [calls EXCEPT ![c].result = bufs[calls[c].output], ![c].pc = "done"]
    /\ UNCHANGED bufs
    /\ ParFrame

ParNext ==
    \E c \in Calls :
        \/ ParCopy(c) \/ ParDetect(c) \/ ParTriangulate(c)
        \/ ParTriangle(c) \/ ParReturn(c)

ParSpec == ParInit /\ [][ParNext]_vars

\* ------------------------------------------------- properties, continued
\* What the loop of swap_faces makes of the buffer out when it runs without
\* interference from triangle k on: the exception it raises, or the picture
\* it returns.
RECURSIVE WarpAll(_, _, _, _, _, _)
WarpAll(img1, out, tl, hp1, hp2, k) ==
    IF k > Len(tl) THEN [raised |-> None, result |-> out]
    ELSE LET r == ResolveVertices(tl[k], hp1, hp2)
             w == warp_triangle(img1, out, r.pts1, r.pts2)
         IN  IF Len(r.pts1) = 3 /\ Len(r.pts2) = 3
             THEN IF w.error # None THEN [raised |-> w.error, result |-> NoImage]
                  ELSE WarpAll(img1, w.img, tl, hp1, hp2, k + 1)
             ELSE WarpAll(img1, out, tl, hp1, hp2, k + 1)

\* What call c gives when it runs alone on its two pictures (with the
\* triangle list the library gave it).
Alone(c) ==
    IF det[Img1Of(c)] = << >> \/ det[Img2Of(c)] = << >>
    THEN [raised |-> NoFaceError, result |-> NoImage]
    ELSE WarpAll(bufs[Img1Of(c)], bufs[Img2Of(c)], calls[c].triangles,
                 calls[c].hull_points1, calls[c].hull_points2, 1)

\* The buffers call c was given or has created.
BuffersOf(c) ==
    {Img1Of(c), Img2Of(c)} \cup (IF calls[c].output = 0 THEN {} ELSE {calls[c].output})

\* C13: for every interleaving of two calls of swap_faces on separate input
\* buffers, each call returns, or raises, what it does when run alone; the
\* buffers of one call are not those of the other, and the input buffers
\* hold what they held.
C13_CallsIndependent ==
    entry = "par" =>
        /\ \A c \in Calls : calls[c].pc = "done" =>
              /\ calls[c].result = Alone(c).result
              /\ calls[c].raised = Alone(c).raised
        /\ \A c, d \in Calls : c # d => BuffersOf(c) \cap BuffersOf(d) = {}
        /\ \E s1, s2 \in ParScenes :
              SubSeq(bufs, 1, 4) = <<s1.img1, s1.img2, s2.img1, s2.img2>>

\* C13's case: both calls have ended, each after the other had started and
\* written; one returned a picture that differs from its img2 and the other
\* returned one too or raised after it had written.
C13_Witness ==
    /\ entry = "par"
    /\ \A c \in Calls : calls[c].pc = "done" /\ bufs[calls[c].output] # bufs[Img2Of(c)]
    /\ calls[1].result # NoImage
    /\ calls[2].raised # None

\* -------------------------------------------------------------------- C22
\* The handler has called swap_faces: the call's first statement has run.
SwapCalled == entry = "ui" /\ output # None

\* One of the handler's preconditions fails for this request.
RequestFails ==
    \/ file1.kind = "none" \/ file2.kind = "none"
    \/ load_and_prepare_image(file1).image = NoImage
    \/ load_and_prepare_image(file2).image = NoImage
    \/ ~ predictor
    \/ det[1] = << >> \/ det[2] = << >>

\* Picture i was loaded, and later a face was detected in it, in this request.
LoadedThenDetected(i) ==
    \E j, k \in DOMAIN log :
        /\ j < k
        /\ log[j] = Event("load", i)
        /\ log[k] = DetectEvent(i, "face")

\* C22: in a request of the page swap_faces is called only after both files
\* were uploaded, both pictures were loaded to a buffer, the shape predictor
\* file was found and the detection returned a face for both pictures, all in
\* this request; when one of these fails the handler ends with an error
\* reported and without having called swap_faces.
C22_SwapOnlyAfterChecks ==
    entry = "ui" =>
        /\ (pc = "swap_copy" \/ SwapCalled) =>
              /\ file1.kind # "none" /\ file2.kind # "none"
              /\ heap.img1 # NoImage /\ heap.img2 # NoImage
              /\ predictor
              /\ face1 # NoRect /\ face2 # NoRect
              /\ LoadedThenDetected(1) /\ LoadedThenDetected(2)
        /\ RequestFails => ~ SwapCalled /\ pc # "swap_copy"
        /\ (RequestFails /\ pc = "done") => errors # << >>

\* C22's case: a request went through every check, called swap_faces and
\* came to its end.
C22_Witness ==
    /\ SwapCalled
    /\ pc = "done"
    /\ result # NoImage
    /\ ~ RequestFails

\* -------------------------------------------------------------------- C23
\* C23: no step of swap_faces, and no call of warp_triangle in it, writes
\* the buffer of img1: from the load of the source picture on (or from the
\* call on, when swap_faces is called directly) every step leaves the
\* pixels of img1 as they are, whether the swap returns or raises.
C23_SourceNotModified ==
    [][pc # "load1" => heap'.img1 = heap.img1]_vars

\* C23's case: a swap has written warped pixels taken from img1 and ended,
\* by a return or by an exception.
C23_Witness ==
    /\ entry \in {"ui", "direct"}
    /\ pc = "done"
    /\ output # None
    /\ heap.img1 # NoImage
    /\ \E k \in DOMAIN warps : warps[k].error = None
    /\ heap[output] # heap.img2

\* -------------------------------------------------------------------- C24
\* The point p is a pixel of the picture img.
InImage(p, img) == 0 <= p[1] /\ p[1] < img.w /\ 0 <= p[2] /\ p[2] < img.h

\* The rectangle r = <<x, y, width, height>> lies entirely in the picture img.
RectInImage(r, img) ==
    /\ 0 <= r[1] /\ r[1] + r[3] <= img.w
    /\ 0 <= r[2] /\ r[2] + r[4] <= img.h

\* The pixel p lies in the rectangle r.
InRect(p, r) ==
    /\ r[1] <= p[1] /\ p[1] < r[1] + r[3]
    /\ r[2] <= p[2] /\ p[2] < r[2] + r[4]

\* Every source landmark is a pixel of img1 and every destination landmark
\* a pixel of img2.
LandmarksInside ==
    /\ landmarks1 # NoLandmarks /\ landmarks2 # NoLandmarks
    /\ \A i \in DOMAIN landmarks1 : InImage(landmarks1[i], heap.img1)
    /\ \A i \in DOMAIN landmarks2 : InImage(landmarks2[i], heap.img2)

\* This step is a call of warp_triangle from the loop of swap_faces.
WarpStep == pc = "swap_loop" /\ Len(warps') = Len(warps) + 1

\* C24: when every source landmark lies in the source picture and every
\* destination landmark in the destination picture, then in every call of
\* warp_triangle from swap_faces the rectangle read from img1 lies entirely
\* in img1 and the rectangle read and written in the output lies entirely in
\* it, so the call does not fail on the shapes, and no pixel outside the
\* bounding rectangle of the destination triangle is written.
C24_RectanglesInside ==
    [][(LandmarksInside /\ WarpStep) =>
          LET w  == warps'[Len(warps')]
              r1 == boundingRect(w.pts1)
              r2 == boundingRect(w.pts2)
          IN  /\ RectInImage(r1, heap.img1)
              /\ Slice(heap.img1, r1) = r1
              /\ RectInImage(r2, heap[output])
              /\ Slice(heap[output], r2) = r2
              /\ w.error = None
              /\ \A p \in DOMAIN heap[output].px :
                    heap'[output].px[p] # heap[output].px[p] => InRect(p, r2)]_vars

\* C24's case: with all landmarks inside their pictures a triangle was
\* warped whose source rectangle ends on the last row or the last column of
\* the source picture, and the output was written.
C24_Witness ==
    /\ LandmarksInside
    /\ warps # << >>
    /\ heap[output] # dst0
    /\ \E k \in DOMAIN warps :
          LET r1 == boundingRect(warps[k].pts1)
          IN  r1[2] + r1[4] = heap.img1.h \/ r1[1] + r1[3] = heap.img1.w

\* -------------------------------------------------------------------- C25
\* This step is the call of load_and_prepare_image on upload i.
LoadStep(i) == pc = (IF i = 1 THEN "load1" ELSE "load2") /\ pc' # pc

\* Something fails while the upload f is decoded or its temporary files are
\* written: the bytes are no image, or a temporary file is needed and cannot
\* be created or cannot be written.
LoadFails(f) ==
    /\ f.kind # "none"
    /\ \/ Undecodable(f)
       \/ tempfs = "raises" /\ ~ (f.kind = "empty" /\ imdecodeRaises)
       \/ tempfs = "fails" /\ f.kind \in {"image", "fileonly"}

\* C25 as stated: a call of load_and_prepare_image returns to its caller;
\* for None it returns (None, "") and has decoded nothing and created no
\* temporary file; when decoding or the writing of a temporary file fails
\* it reports an error and returns (None, ""); and it returns a path only
\* together with an image.
C25_LoadReportsEveryFailure ==
    [][\A i \in 1 .. 2 : LoadStep(i) =>
          LET f     == IF i = 1 THEN file1 ELSE file2
              image == IF i = 1 THEN heap'.img1 ELSE heap'.img2
              path  == IF i = 1 THEN path1' ELSE path2'
          IN  /\ raised' = None
              /\ f.kind = "none" =>
                    /\ image = NoImage /\ path = NoPath
                    /\ tempSeq' = tempSeq /\ tempFiles' = tempFiles
                    /\ Len(log') = Len(log) + 1
              /\ LoadFails(f) =>
                    /\ image = NoImage /\ path = NoPath
                    /\ Len(errors') > Len(errors)
              /\ path # NoPath => image # NoImage]_vars

\* -------------------------------------------------------------------- C29
\* The vertex i (0, 1, 2) of the triangle t.
VertexOf(t, i) == <<t[2 * i + 1], t[2 * i + 2]>>

\* The hull positions whose destination point equals the point pt.
Matches(pt) == {k \in DOMAIN hull_points2 : hull_points2[k] = pt}

\* The lists pts1 and pts2 after the first n vertices of the triangle t.
RECURSIVE Resolved(_, _)
Resolved(t, n) ==
    IF n = 0 THEN [pts1 |-> << >>, pts2 |-> << >>]
    ELSE ResolveVertex(Resolved(t, n - 1), t, n - 1, hull_points1, hull_points2)

\* The triangle of the list that the k-th warp was called for.
TriangleOfWarp(k) == triangles[warps[k].t]

\* C29: in the loop over the vertices of a triangle pts1 and pts2 have equal
\* length after every vertex, at most the number of vertices looked at;
\* warp_triangle is called for a triangle exactly when each of its three
\* vertices equals a destination hull point; and the source point taken for
\* a vertex is the one at the first hull position whose destination point
\* equals it.
C29_VerticesResolved ==
    /\ \A j \in DOMAIN triangles : \A n \in 0 .. 3 :
          /\ Len(Resolved(triangles[j], n).pts1) = Len(Resolved(triangles[j], n).pts2)
          /\ Len(Resolved(triangles[j], n).pts1) <= n
    /\ \A j \in DOMAIN triangles :
          j < ti =>
             ((\E k \in DOMAIN warps : warps[k].t = j)
                <=> \A i \in 0 .. 2 : Matches(VertexOf(triangles[j], i)) # {})
    /\ \A k \in DOMAIN warps :
          /\ Len(warps[k].pts1) = 3 /\ Len(warps[k].pts2) = 3
          /\ \A i \in 0 .. 2 :
                /\ warps[k].pts2[i + 1] = VertexOf(TriangleOfWarp(k), i)
                /\ warps[k].pts1[i + 1] =
                      hull_points1[SetMin(Matches(VertexOf(TriangleOfWarp(k), i)))]

\* C29's case: warp_triangle was called for a triangle with a vertex that
\* equals two hull points, and the two positions hold different source points.
C29_Witness ==
    /\ entry = "loop"
    /\ \E k \in DOMAIN warps : \E i \in 0 .. 2 :
          LET M == Matches(VertexOf(TriangleOfWarp(k), i))
          IN  /\ Cardinality(M) >= 2
              /\ \E m \in M : hull_points1[m] # hull_points1[SetMin(M)]

\* -------------------------------------------------------------------- C21
\* C21 as stated: one request of authenticate attempts the refresh at most
\* once; after a refresh that failed the call made again does not refresh
\* but goes through the login flow, so that a request that has ended after
\* a failed refresh has run the login flow.
C21_RefreshAtMostOnce ==
    /\ gmail.refreshes <= 1
    /\ (gmail.pc = "done" /\ gmail.refreshFailures > 0) => gmail.flows = 1

\* -------------------------------------------------------------------- C26
\* C26: over every sequence of Connect, Disconnect and Execute, a command is
\* sent only with the client the session holds at that moment, which is not
\* None and was stored by a connect that succeeded; after a connect that
\* failed and after a disconnect that succeeded ssh_client is None; and
\* while ssh_client is None execute_ssh_command returns None and sends
\* nothing.
C26_SentOnlyWhileConnected ==
    [][/\ Len(ssh'.sent) > Len(ssh.sent) =>
             /\ ssh.inSession /\ ssh.ssh_client # 0
             /\ ssh.ssh_client \in ssh.connected
             /\ ssh'.sent[Len(ssh'.sent)].client = ssh.ssh_client
             /\ ssh'.last = "execute"
       /\ ssh'.last \in {"connect_failed", "disconnect_ok"} => ssh'.ssh_client = 0
       /\ (ssh'.last = "execute" /\ ssh.ssh_client = 0) =>
             /\ ssh'.ret = None
             /\ ssh'.sent = ssh.sent]_vars

\* C26's case: a command was sent over a connection, a later connect failed
\* while a client was held, and the call of execute_ssh_command after it
\* returned None.
C26_Witness ==
    /\ ssh.sent # << >>
    /\ ssh.created > Cardinality(ssh.connected)
    /\ ssh.last = "execute"
    /\ ssh.ssh_client = 0
    /\ ssh.ret = None
    /\ ssh.closed = {}

\* -------------------------------------------------------------------- C27
\* C27: send_dm is called only after start_driver and login have both
\* succeeded; a handler that has ended after start_driver succeeded has
\* called close() and with it quit() on the driver, whichever way it ended;
\* and no call of close(), the second one and the one without a driver
\* included, lets an exception out.
C27_DriverClosed ==
    /\ dm.sends > 0 => dm.started /\ dm.loggedIn
    /\ dm.sends <= 1
    /\ (dm.pc = "done" /\ dm.started) =>
          /\ dm.closes >= 1 /\ dm.quits >= 1
          /\ dm.quitRaises \/ dm.driver = "quit"
    /\ dm.escaped = None

\* C27's case: the login failed after the driver had started, so that
\* close() was called twice, and the handler has ended.
C27_Witness ==
    /\ dm.pc = "done"
    /\ dm.started /\ ~ dm.loggedIn
    /\ dm.closes = 2 /\ dm.quits = 2
    /\ dm.driver = "quit"

\* -------------------------------------------------------------------- C28
\* C28: a callback that is inactive stays inactive until on_train_begin, and
\* on_epoch_end on an inactive callback calls neither the progress bar nor
\* the status text; and every value passed to the progress bar is a
\* fraction from 0 to 1, for every epoch number and every total_epochs,
\* 0 included.
C28_InactiveNoUpdate ==
    [][/\ (~ tp.active /\ tp'.last # "train_begin") =>
             /\ ~ tp'.active
             /\ tp'.barCalls = tp.barCalls
             /\ tp'.textCalls = tp.textCalls
             /\ tp'.barValues = tp.barValues
       /\ \A v \in tp'.barValues : v[2] > 0 /\ 0 <= v[1] /\ v[1] <= v[2]]_vars

\* C28's case: with total_epochs 0 the progress bar was updated, an update
\* raised, and a later on_epoch_end returned without an update.
C28_Witness ==
    /\ tp.total_epochs = 0
    /\ tp.barValues # {}
    /\ ~ tp.active
    /\ tp.last = "epoch_end"
    /\ tp.skipped > 0
    /\ tp.hasText
    /\ tp.barCalls > tp.textCalls

====
